---- MODULE Spec2Model ----
(***************************************************************************)
(* LuringTalk: the envelope codec of src/utils/network.ts (formatSDPForQR, *)
(* parseSDPFromQR) and the negotiation controller of src/App.tsx.          *)
(*                                                                         *)
(* Strings are sequences of atoms.  An atom is one character ("A", "+",    *)
(* "%", " ") or a character run that the code only ever handles as a whole *)
(* ("m=", "a=candidate:", "typ", "offer"); every atom has one code in      *)
(* 0..255 (CharAt), which is what the byte, percent and base64 transports  *)
(* carry.  Numbers are spelled digit by digit.                             *)
(***************************************************************************)
EXTENDS Integers, Sequences, FiniteSets, TLC

VARIABLES
    \* ---- codec harness (SpecCodec) ----
    data,       \* the description handed to formatSDPForQR: [type, sdp]
    reduced,    \* the lines formatSDPForQR kept (its compressedSDP), <<>> if none
    token,      \* the token produced by formatSDPForQR (or a raw input token)
    wire,       \* the token as it arrives after transport
    parsed,     \* the value returned by parseSDPFromQR(wire)
    cstage,     \* "input" | "encoded" | "sent" | "decoded"; "calls" under SpecDecode
    via,        \* the transport applied: "none" | "percent" | "bytes" | "base64"
    origin,     \* "encode": token made by formatSDPForQR, "legacy": by the earlier
                \* formatSDPForQR, "raw": token given as is
    calls,      \* the calls of parseSDPFromQR made so far (SpecDecode): the text
                \* handed in, the value returned, the appState at the call
    \* ---- the components on their own (SpecScanner, SpecProbe) ----
    scanner,    \* one QRScanner: its refs, its state, its startCamera calls
    probe,      \* one call of getLocalIP: its connection, its timer, its promise
    \* ---- negotiation controller (Spec): the state of App ----
    appState,       \* useState<AppState>
    role,           \* useState<CallRole>
    error,          \* useState: the message of the error modal, NoError if none
    warning,        \* useState: the message of the warning toast, NoWarning if none
    signalString,   \* useState: the token shown for copying
    qrCodeData,     \* useState: the token whose code image is held, <<>> if none
    remoteStream,   \* useState: the session whose inbound stream is held, 0 if none
    pcCurrent,      \* pc.current: the session whose RTCPeerConnection is held, 0 if none
    localStream,    \* localStream.current: the session whose MediaStream is held, 0 if none
    sess,           \* per session: its async position, its RTCPeerConnection, its timers
    created,        \* number of sessions created so far
    answers,        \* the processAnswer calls under way
    clipboard,      \* the clipboard reads under way, each with the appState it captured
    qrJobs,         \* the QRCode.toDataURL calls under way
    fallbackTimer,  \* the 15 s timer of the SHOWING_ANSWER effect
    warningTimer,   \* the 5 s timer of the warning effect
    clicks,         \* number of things the user has done so far
    sessionCap      \* number of sessions the behaviour may create

codecVars == <<data, reduced, token, wire, parsed, cstage, via, origin, calls>>

ctlVars == <<appState, role, error, warning, signalString, qrCodeData, remoteStream,
             pcCurrent, localStream, sess, created, answers, clipboard, qrJobs,
             fallbackTimer, warningTimer>>

partVars == <<scanner, probe>>

vars == <<codecVars, ctlVars, clicks, sessionCap, partVars>>

-----------------------------------------------------------------------------
(* Bounds *)

\* candidates the engine reports to one getLocalIP
MaxCandidates == 3

\* startCamera calls of one QRScanner
MaxStarts == 3

\* entries of constraintsList (QRScanner.tsx 60-65)
GumAttempts == 4

\* longest document, in lines, handed to formatSDPForQR
MaxLines == 2

\* longest document, in lines, whose kept lines are examined
MaxReduceLines == 4

\* number of calls of parseSDPFromQR whose results are compared
MaxCalls == 3

\* sessions (startCall / processOffer runs) in one behaviour
MaxSessions == 2

\* things the user does in one behaviour
MaxUserActions == 3

\* sessions in one behaviour of the specification with fairness
MaxLiveSessions == 1

\* processAnswer calls under way at once
MaxAnswers == 2

\* clipboard reads under way at once
MaxClipboard == 2

-----------------------------------------------------------------------------
(* Characters *)

LF == "LF"
CR == "CR"
TAB == "TAB"
SP == " "
DQ == "DQ"
BS == "BS"
UNK == "?"

Upper == <<"A","B","C","D","E","F","G","H","I","J","K","L","M",
           "N","O","P","Q","R","S","T","U","V","W","X","Y","Z">>
Lower == <<"a","b","c","d","e","f","g","h","i","j","k","l","m",
           "n","o","p","q","r","s","t","u","v","w","x","y","z">>
Digits == <<"0","1","2","3","4","5","6","7","8","9">>

\* the alphabet of LZ.compressToBase64 / atob
keyStrBase64 == Upper \o Lower \o Digits \o <<"+", "/">>

\* character runs handled as a whole; they take the codes 179.., which makes
\* "m=" and "a=ice-ufrag:" compress to "+" and "/", so that tokens with and
\* without the characters a URL escapes both occur
Words == << "type", "sdp", "offer", "answer", "bogus", "null",
            "v=", "o=", "s=", "t=", "c=", "m=",
            "a=ice-ufrag:", "a=ice-pwd:", "a=fingerprint:", "a=setup:",
            "a=rtcp-mux", "a=rtcp:", "a=mid:",
            "a=sendrecv", "a=recvonly", "a=sendonly", "a=inactive",
            "a=rtpmap:", "a=fmtp:", "a=candidate:", "a=end-of-candidates",
            "a=extmap:", "a=ssrc:", "a=msid:", "b=",
            "audio", "video", "RTP", "opus", "VP8",
            "udp", "UDP", "tcp", "typ", "host", "srflx", "local", "actpass" >>

CharAt(c) ==
    CASE c = 9 -> TAB
      [] c = 10 -> LF
      [] c = 13 -> CR
      [] c = 32 -> SP
      [] c = 34 -> DQ
      [] c = 37 -> "%"
      [] c = 43 -> "+"
      [] c = 44 -> ","
      [] c = 45 -> "-"
      [] c = 46 -> "."
      [] c = 47 -> "/"
      [] c \in 48..57 -> Digits[c - 47]
      [] c = 58 -> ":"
      [] c = 61 -> "="
      [] c \in 65..90 -> Upper[c - 64]
      [] c = 92 -> BS
      [] c \in 97..122 -> Lower[c - 96]
      [] c = 123 -> "{"
      [] c = 125 -> "}"
      [] c \in 179..(178 + Len(Words)) -> Words[c - 178]
      [] OTHER -> UNK

Atoms == {CharAt(c) : c \in 0..255}

CodeMap == [a \in Atoms |-> CHOOSE c \in 0..255 : CharAt(c) = a]

CodeOf(a) == CodeMap[a]

B64Map == [a \in {keyStrBase64[i] : i \in 1..64} |->
              (CHOOSE i \in 1..64 : keyStrBase64[i] = a) - 1]

IsB64(a) == a \in DOMAIN B64Map

IsDigit(a) == a \in {Digits[i] : i \in 1..10}

DigitVal(a) == (CHOOSE i \in 1..10 : Digits[i] = a) - 1

IsWS(a) == a \in {SP, LF, CR, TAB}

HexDigits == <<"0","1","2","3","4","5","6","7","8","9","A","B","C","D","E","F">>

IsHex(a) == IsDigit(a) \/ a \in {"A","B","C","D","E","F","a","b","c","d","e","f"}

LowerHexDigits ==
    <<"0","1","2","3","4","5","6","7","8","9","a","b","c","d","e","f">>

HexVal(a) == (CHOOSE i \in 1..16 : a \in {HexDigits[i], LowerHexDigits[i]}) - 1

-----------------------------------------------------------------------------
(* String primitives of the JavaScript runtime *)

MinOf(S) == CHOOSE x \in S : \A y \in S : x <= y
MaxOf(S) == CHOOSE x \in S : \A y \in S : y <= x

\* String.prototype.trim
Trim(s) ==
    LET keep == {i \in 1..Len(s) : ~IsWS(s[i])}
    IN  IF keep = {} THEN <<>> ELSE SubSeq(s, MinOf(keep), MaxOf(keep))

\* String.prototype.startsWith
StartsWith(s, p) == Len(s) >= Len(p) /\ SubSeq(s, 1, Len(p)) = p

\* String.prototype.includes
Includes(s, p) ==
    \E i \in 1..(Len(s) - Len(p) + 1) : SubSeq(s, i, i + Len(p) - 1) = p

\* String.prototype.split with a one-character separator
RECURSIVE SplitFrom(_, _, _)
SplitFrom(s, sep, start) ==
    LET hits == {i \in start..Len(s) : s[i] = sep}
    IN  IF hits = {} THEN << SubSeq(s, start, Len(s)) >>
        ELSE << SubSeq(s, start, MinOf(hits) - 1) >>
                \o SplitFrom(s, sep, MinOf(hits) + 1)

Split(s, sep) == SplitFrom(s, sep, 1)

\* the concatenation of the strings parts[lo..hi]
RECURSIVE FlattenRange(_, _, _)
FlattenRange(parts, lo, hi) ==
    IF lo > hi THEN <<>>
    ELSE IF lo = hi THEN parts[lo]
    ELSE FlattenRange(parts, lo, (lo + hi) \div 2)
         \o FlattenRange(parts, ((lo + hi) \div 2) + 1, hi)

Flatten(parts) == FlattenRange(parts, 1, Len(parts))

\* Array.prototype.join
Join(parts, sep) ==
    Flatten([i \in 1..Len(parts) |-> IF i = 1 THEN parts[1] ELSE sep \o parts[i]])

\* String.prototype.replace with a global literal pattern
RECURSIVE ReplaceAll(_, _, _)
ReplaceAll(s, pat, rep) ==
    IF Len(s) < Len(pat) THEN s
    ELSE IF SubSeq(s, 1, Len(pat)) = pat
         THEN rep \o ReplaceAll(SubSeq(s, Len(pat) + 1, Len(s)), pat, rep)
         ELSE << s[1] >> \o ReplaceAll(Tail(s), pat, rep)

\* Number(v) of a run of digits, saturating above one byte
RECURSIVE NumberFrom(_, _, _)
NumberFrom(s, i, acc) ==
    IF i > Len(s) THEN acc
    ELSE NumberFrom(s, i + 1,
                    IF acc * 10 + DigitVal(s[i]) > 999 THEN 999
                    ELSE acc * 10 + DigitVal(s[i]))

Number(s) == NumberFrom(s, 1, 0)

AllDigits(s) == Len(s) > 0 /\ \A i \in 1..Len(s) : IsDigit(s[i])

-----------------------------------------------------------------------------
(* formatSDPForQR: the line filter (network.ts 75-168) *)

\* formatSDPForQR.isPrivateIp (network.ts 82-88)
\* the test on ip.split('.').map(Number) (network.ts 85-86)
isPrivate172(parts) ==
    /\ Len(parts) = 4
    /\ \A i \in 1..4 : AllDigits(parts[i])
    /\ Number(parts[1]) = 172
    /\ Number(parts[2]) >= 16
    /\ Number(parts[2]) <= 31

isPrivateIp(ip) ==
    IF StartsWith(ip, <<"1","0",".">>) THEN TRUE
    ELSE IF StartsWith(ip, <<"1","9","2",".","1","6","8",".">>) THEN TRUE
    ELSE isPrivate172(Split(ip, "."))

\* the number of digits that start at position i
RECURSIVE DigitRun(_, _)
DigitRun(s, i) ==
    IF i > Len(s) \/ ~IsDigit(s[i]) THEN 0 ELSE 1 + DigitRun(s, i + 1)

\* a run of r digits at position i, then a dot: the position after the dot, or 0
DotAfter(s, i, r) ==
    IF i > 0 /\ r >= 1 /\ r <= 3 /\ i + r <= Len(s) /\ s[i + r] = "."
    THEN i + r + 1 ELSE 0

\* /\d{1,3}\./ at position i: the position after the dot, or 0; 0 at position 0
IpPart(s, i) == IF i = 0 THEN 0 ELSE DotAfter(s, i, DigitRun(s, i))

\* /\d{1,3}/ at position p with a run of r digits: its last position, or 0
IpLast(p, r) == IF p = 0 \/ r = 0 THEN 0 ELSE p + (IF r > 3 THEN 3 ELSE r) - 1

\* the digits of the last part, which starts at position p
LastRun(s, p) == IpLast(p, IF p = 0 THEN 0 ELSE DigitRun(s, p))

\* /(\d{1,3}(?:\.\d{1,3}){3})/ at position i: the last position of the match, or 0
IpEndAt(s, i) == LastRun(s, IpPart(s, IpPart(s, IpPart(s, i))))

\* the match that starts first, <<>> if there is none
FirstIp(line, starts) ==
    IF starts = {} THEN <<>>
    ELSE SubSeq(line, MinOf(starts), IpEndAt(line, MinOf(starts)))

\* line.match(/(\d{1,3}(?:\.\d{1,3}){3})/): the first match, <<>> if none
ipMatch(line) == FirstIp(line, {i \in 1..Len(line) : IpEndAt(line, i) > 0})

\* SessionPrefixes without the version line
SessionPrefixesWithoutVersion == {"o=", "s=", "t=", "c="}

SessionPrefixes == {"v=", "o=", "s=", "t=", "c="}

CriticalPrefixes ==
    {"a=ice-ufrag:", "a=ice-pwd:", "a=fingerprint:", "a=setup:", "a=rtcp-mux",
     "a=rtcp:", "a=mid:", "a=sendrecv", "a=recvonly", "a=sendonly", "a=inactive"}

CodecPrefixes == {"a=rtpmap:", "a=fmtp:"}

\* line.startsWith(p) for one of the prefixes the filter tests
LineStarts(line, prefixes) == Len(line) > 0 /\ line[1] \in prefixes

\* ipMatch ? isPrivateIp(ipMatch[1]) : true (network.ts 148)
isPrivateHost(ip) == IF ip # <<>> THEN isPrivateIp(ip) ELSE TRUE

\* KeepsCandidate without the test that none was kept for the section
KeepsCandidateEveryTime(line, mediaIndex, keptCandidateForMedia) ==
    /\ mediaIndex >= 0
    /\ Includes(line, <<SP, "typ", SP, "host">>)
    /\ Includes(line, <<SP, "udp", SP>>)
    /\ isPrivateHost(ipMatch(line))

\* the candidate rule (network.ts 143-156): is this candidate line kept
KeepsCandidate(line, mediaIndex, keptCandidateForMedia) ==
    /\ mediaIndex >= 0
    /\ mediaIndex \notin keptCandidateForMedia
    /\ Includes(line, <<SP, "typ", SP, "host">>)
    /\ Includes(line, <<SP, "udp", SP>>)
    /\ isPrivateHost(ipMatch(line))

\* FilterStep with every end-of-candidates marker kept
FilterStepKeepsEveryEnd(st, line) ==
    IF Trim(line) = <<>> THEN st
    ELSE IF LineStarts(line, {"m="})
    THEN [st EXCEPT !.mediaIndex = st.mediaIndex + 1,
                    !.compressedLines = Append(st.compressedLines, line)]
    ELSE IF LineStarts(line, SessionPrefixes \cup CriticalPrefixes \cup CodecPrefixes)
    THEN [st EXCEPT !.compressedLines = Append(st.compressedLines, line)]
    ELSE IF LineStarts(line, {"a=candidate:"})
    THEN IF KeepsCandidate(line, st.mediaIndex, st.keptCandidateForMedia)
         THEN [st EXCEPT !.compressedLines = Append(st.compressedLines, line),
                         !.keptCandidateForMedia = @ \cup {st.mediaIndex},
                         !.keptAnyCandidateForMedia = @ \cup {st.mediaIndex}]
         ELSE st
    ELSE IF LineStarts(line, {"a=end-of-candidates"})
    THEN [st EXCEPT !.compressedLines = Append(st.compressedLines, line)]
    ELSE st

\* one pass of the loop body (network.ts 90-166) over the accumulated state
FilterStep(st, line) ==
    IF Trim(line) = <<>> THEN st
    ELSE IF LineStarts(line, {"m="})
    THEN [st EXCEPT !.mediaIndex = st.mediaIndex + 1,
                    !.compressedLines = Append(st.compressedLines, line)]
    ELSE IF LineStarts(line, SessionPrefixes)
    THEN [st EXCEPT !.compressedLines = Append(st.compressedLines, line)]
    ELSE IF LineStarts(line, CriticalPrefixes)
    THEN [st EXCEPT !.compressedLines = Append(st.compressedLines, line)]
    ELSE IF LineStarts(line, CodecPrefixes)
    THEN [st EXCEPT !.compressedLines = Append(st.compressedLines, line)]
    ELSE IF LineStarts(line, {"a=candidate:"})
    THEN IF KeepsCandidate(line, st.mediaIndex, st.keptCandidateForMedia)
         THEN [st EXCEPT !.compressedLines = Append(st.compressedLines, line),
                         !.keptCandidateForMedia = @ \cup {st.mediaIndex},
                         !.keptAnyCandidateForMedia = @ \cup {st.mediaIndex}]
         ELSE st
    ELSE IF LineStarts(line, {"a=end-of-candidates"})
    THEN IF st.mediaIndex >= 0 /\ st.mediaIndex \in st.keptAnyCandidateForMedia
         THEN [st EXCEPT !.compressedLines = Append(st.compressedLines, line)]
         ELSE st
    ELSE st

RECURSIVE FilterLines(_, _, _)
FilterLines(lines, i, st) ==
    IF i > Len(lines) THEN st
    ELSE FilterLines(lines, i + 1, FilterStep(st, lines[i]))

\* compressedSDP with the kept lines joined by CR LF
compressedSDPJoinedCRLF(sdp) ==
    Join(FilterLines(Split(sdp, LF), 1,
                     [mediaIndex |-> -1,
                      compressedLines |-> <<>>,
                      keptCandidateForMedia |-> {},
                      keptAnyCandidateForMedia |-> {}]).compressedLines,
         <<CR, LF>>)

\* compressedSDP with no line dropped
compressedSDPUnfiltered(sdp) == sdp

\* the lines formatSDPForQR keeps of the document text sdp (network.ts 75-168)
compressedSDP(sdp) ==
    Join(FilterLines(Split(sdp, LF), 1,
                     [mediaIndex |-> -1,
                      compressedLines |-> <<>>,
                      keptCandidateForMedia |-> {},
                      keptAnyCandidateForMedia |-> {}]).compressedLines,
         <<LF>>)

-----------------------------------------------------------------------------
(* JSON.stringify / JSON.parse on the records the codec exchanges *)

\* JSON values.  A leaf has the fields k, s, n; an object also has type and sdp,
\* the only members the codec and its callers read.
JLeaf(k, s, n) == [k |-> k, s |-> s, n |-> n]
JNull == JLeaf("null", <<>>, 0)
JUndefined == JLeaf("undefined", <<>>, 0)
JStr(s) == JLeaf("string", s, 0)
JNum(n) == JLeaf("number", <<>>, n)
JOpaque == JLeaf("object", <<>>, 0)
JObj(type, sdp) == [k |-> "object", s |-> <<>>, n |-> 0, type |-> type, sdp |-> sdp]

IsRecordValue(v) == v.k = "object" /\ "sdp" \in DOMAIN v

\* JavaScript truthiness of a JSON value
Truthy(v) ==
    CASE v.k = "null" -> FALSE
      [] v.k = "undefined" -> FALSE
      [] v.k = "number" -> v.n # 0
      [] v.k = "string" -> v.s # <<>>
      [] OTHER -> TRUE

\* the quoted form JSON.stringify gives a string
Quoted(s) ==
    Flatten([i \in 1..Len(s) |->
               CASE s[i] = DQ -> <<BS, DQ>>
                 [] s[i] = BS -> <<BS, BS>>
                 [] s[i] = LF -> <<BS, "n">>
                 [] s[i] = CR -> <<BS, "r">>
                 [] s[i] = TAB -> <<BS, "t">>
                 [] OTHER -> << s[i] >>])

\* JSON.stringify({type, sdp}) with two string members
JSONstringify(rec) ==
    <<"{", DQ, "type", DQ, ":", DQ>> \o Quoted(rec.type) \o <<DQ, ",">>
    \o <<DQ, "sdp", DQ, ":", DQ>> \o Quoted(rec.sdp) \o <<DQ, "}">>

RECURSIVE SkipWS(_, _)
SkipWS(s, i) == IF i <= Len(s) /\ IsWS(s[i]) THEN SkipWS(s, i + 1) ELSE i

PFail == [ok |-> FALSE, next |-> 0, v |-> JNull]
POk(next, v) == [ok |-> TRUE, next |-> next, v |-> v]

\* the body of a JSON string literal from position i, up to the closing quote
RECURSIVE StrBody(_, _, _)
StrBody(s, i, acc) ==
    IF i > Len(s) THEN PFail
    ELSE IF s[i] = DQ THEN POk(i + 1, JStr(acc))
    ELSE IF s[i] \in {LF, CR, TAB} THEN PFail
    ELSE IF s[i] = BS
    THEN IF i + 1 > Len(s) THEN PFail
         ELSE CASE s[i + 1] = DQ -> StrBody(s, i + 2, Append(acc, DQ))
                [] s[i + 1] = BS -> StrBody(s, i + 2, Append(acc, BS))
                [] s[i + 1] = "/" -> StrBody(s, i + 2, Append(acc, "/"))
                [] s[i + 1] = "n" -> StrBody(s, i + 2, Append(acc, LF))
                [] s[i + 1] = "r" -> StrBody(s, i + 2, Append(acc, CR))
                [] s[i + 1] = "t" -> StrBody(s, i + 2, Append(acc, TAB))
                [] OTHER -> PFail
    ELSE StrBody(s, i + 1, Append(acc, s[i]))

\* a number literal of r digits at position i (no leading zero, no fraction)
NumberLiteral(s, i, r) ==
    IF r > 1 /\ s[i] = "0" THEN PFail
    ELSE POk(i + r, JNum(Number(SubSeq(s, i, i + r - 1))))

\* obj with the member name set to v; members other than type and sdp are dropped
WithMember(obj, name, v) ==
    IF name = <<"type">> THEN [obj EXCEPT !.type = v]
    ELSE IF name = <<"sdp">> THEN [obj EXCEPT !.sdp = v]
    ELSE obj

RECURSIVE ParseValue(_, _, _)
RECURSIVE ObjectFrom(_, _, _)
RECURSIVE ParseMembers(_, _, _, _)
RECURSIVE MemberColon(_, _, _, _)
RECURSIVE MemberValue(_, _, _, _, _)
RECURSIVE MemberEnd(_, _, _, _, _)
RECURSIVE MemberNext(_, _, _, _)

\* one JSON value at position i; below depth 0 an object is kept without members
ParseValue(s, i, depth) ==
    IF i > Len(s) THEN PFail
    ELSE IF s[i] = DQ THEN StrBody(s, i + 1, <<>>)
    ELSE IF s[i] = "null" THEN POk(i + 1, JNull)
    ELSE IF IsDigit(s[i]) THEN NumberLiteral(s, i, DigitRun(s, i))
    ELSE IF s[i] = "{" THEN ObjectFrom(s, SkipWS(s, i + 1), depth)
    ELSE PFail

\* an object whose first token after "{" is at position j
ObjectFrom(s, j, depth) ==
    IF j <= Len(s) /\ s[j] = "}"
    THEN POk(j + 1, IF depth > 0 THEN JObj(JUndefined, JUndefined) ELSE JOpaque)
    ELSE ParseMembers(s, j, depth, JObj(JUndefined, JUndefined))

\* the members of an object from position i (after "{" or ","), up to "}"
ParseMembers(s, i, depth, obj) ==
    IF i > Len(s) \/ s[i] # DQ THEN PFail
    ELSE MemberColon(s, StrBody(s, i + 1, <<>>), depth, obj)

\* after the key of a member: the colon
MemberColon(s, key, depth, obj) ==
    IF ~key.ok THEN PFail
    ELSE MemberValue(s, key, SkipWS(s, key.next), depth, obj)

\* the value of a member whose colon should be at position c
MemberValue(s, key, c, depth, obj) ==
    IF c <= Len(s) /\ s[c] = ":"
    THEN MemberEnd(s, key, ParseValue(s, SkipWS(s, c + 1),
                                      IF depth > 0 THEN depth - 1 ELSE 0),
                   depth, obj)
    ELSE PFail

\* after the value of a member: obj takes it, then "}" or "," follows
MemberEnd(s, key, val, depth, obj) ==
    IF ~val.ok THEN PFail
    ELSE MemberNext(s, SkipWS(s, val.next), depth, WithMember(obj, key.v.s, val.v))

MemberNext(s, e, depth, obj2) ==
    IF e > Len(s) THEN PFail
    ELSE IF s[e] = "}" THEN POk(e + 1, IF depth > 0 THEN obj2 ELSE JOpaque)
    ELSE IF s[e] = "," THEN ParseMembers(s, SkipWS(s, e + 1), depth, obj2)
    ELSE PFail

\* a value that is followed by nothing but white space
WholeText(text, r) == IF r.ok /\ SkipWS(text, r.next) > Len(text) THEN r ELSE PFail

\* JSON.parse(text): ok is FALSE where JSON.parse throws
JSONparse(text, depth) == WholeText(text, ParseValue(text, SkipWS(text, 1), depth))

-----------------------------------------------------------------------------
(* The transforms the codec calls: lz-string, atob, decodeURIComponent,     *)
(* TextDecoder; and the transports a token may have gone through            *)

\* the code that ends an lz-string stream
LZEnd == 256

\* LZ.compressToBase64 (called at network.ts 176).  lz-string is a library
\* outside the repository; it is modelled by its contract: a reversible code of
\* the text over keyStrBase64 (here two characters per input character), closed
\* by an end code and padded with "=" to a multiple of four characters.
compressToBase64(s) ==
    LET n == 2 * (Len(s) + 1)
        res == [k \in 1..n |->
                  LET i == (k + 1) \div 2
                      c == IF i <= Len(s) THEN CodeOf(s[i]) ELSE LZEnd
                  IN  IF k % 2 = 1 THEN keyStrBase64[(c \div 64) + 1]
                      ELSE keyStrBase64[(c % 64) + 1]]
    IN  CASE n % 4 = 0 -> res
          [] n % 4 = 1 -> res \o <<"=", "=", "=">>
          [] n % 4 = 2 -> res \o <<"=", "=">>
          [] OTHER -> res \o <<"=">>

LZNull == [null |-> TRUE, s |-> <<>>]

\* the k-th code of the stream: two characters of keyStrBase64, -1 if they are not
LZCode(input, k) ==
    IF 2 * k > Len(input) \/ ~IsB64(input[2 * k - 1]) \/ ~IsB64(input[2 * k])
    THEN -1
    ELSE 64 * B64Map[input[2 * k - 1]] + B64Map[input[2 * k]]

\* a code that stands for a character of the text
LZIsText(c) == c >= 0 /\ c < LZEnd /\ CharAt(c) # UNK

\* the text before the first code that stands for no character, if that is the
\* end code
LZText(input, stops) ==
    IF input = <<>> THEN LZNull
    ELSE IF stops = {} THEN [null |-> FALSE, s |-> <<>>]
    ELSE IF LZCode(input, MinOf(stops)) = LZEnd
    THEN [null |-> FALSE,
          s |-> [k \in 1..(MinOf(stops) - 1) |-> CharAt(LZCode(input, k))]]
    ELSE LZNull

\* LZ.decompressFromBase64 (called at network.ts 191): reads up to the end code
\* and ignores what follows it; null for "" and for a stream that is not a
\* compressed text (lz-string then returns null, "" or a text that JSON.parse
\* rejects, all of which tryParse treats alike), "" when the stream runs out.
decompressFromBase64(input) ==
    LZText(input, {k \in 1..((Len(input) + 1) \div 2) : ~LZIsText(LZCode(input, k))})

\* atob (network.ts 251): ok is FALSE where atob throws
atob(s) ==
    LET pad == IF Len(s) % 4 = 0 /\ Len(s) >= 2 /\ s[Len(s)] = "="
               THEN (IF s[Len(s) - 1] = "=" THEN 2 ELSE 1) ELSE 0
        core == SubSeq(s, 1, Len(s) - pad)
        v == [i \in 1..Len(core) |-> IF IsB64(core[i]) THEN B64Map[core[i]] ELSE 0]
        nbytes == (Len(core) * 6) \div 8
        byte(k) ==
            LET q == ((8 * k) \div 6) + 1
                r == (8 * k) % 6
            IN  CASE r = 0 -> v[q] * 4 + (v[q + 1] \div 16)
                  [] r = 2 -> (v[q] % 16) * 16 + (v[q + 1] \div 4)
                  [] OTHER -> (v[q] % 4) * 64 + v[q + 1]
    IN  IF (\E i \in 1..Len(core) : ~IsB64(core[i])) \/ Len(core) % 4 = 1
        THEN [ok |-> FALSE, s |-> <<>>]
        ELSE [ok |-> TRUE, s |-> [k \in 1..nbytes |-> CharAt(byte(k - 1))]]

\* btoa: the base64 re-wrapping of a token in transit
btoa(s) ==
    LET b == [i \in 1..(Len(s) + 1) |-> IF i <= Len(s) THEN CodeOf(s[i]) ELSE 0]
        nchars == ((8 * Len(s)) + 5) \div 6
        ch(j) ==
            LET q == ((6 * j) \div 8) + 1
                r == (6 * j) % 8
            IN  CASE r = 0 -> b[q] \div 4
                  [] r = 6 -> (b[q] % 4) * 16 + (b[q + 1] \div 16)
                  [] r = 4 -> (b[q] % 16) * 4 + (b[q + 1] \div 64)
                  [] OTHER -> b[q] % 64
        res == [j \in 1..nchars |-> keyStrBase64[ch(j - 1) + 1]]
    IN  CASE nchars % 4 = 0 -> res
          [] nchars % 4 = 2 -> res \o <<"=", "=">>
          [] OTHER -> res \o <<"=">>

\* the characters encodeURIComponent leaves as they are
IsUnreserved(a) == (IsB64(a) /\ a \notin {"+", "/"}) \/ a \in {"-", "."}

\* encodeURIComponent: the percent-escaping of a token in transit
percentEncode(s) ==
    Flatten([i \in 1..Len(s) |->
               IF IsUnreserved(s[i]) THEN << s[i] >>
               ELSE <<"%", HexDigits[(CodeOf(s[i]) \div 16) + 1],
                           HexDigits[(CodeOf(s[i]) % 16) + 1]>>])

\* the character of the escape at position i, UNK for a malformed escape and for
\* a byte that is no character of its own
EscapedChar(s, i) ==
    IF i + 2 <= Len(s) /\ IsHex(s[i + 1]) /\ IsHex(s[i + 2])
    THEN CharAt(16 * HexVal(s[i + 1]) + HexVal(s[i + 2]))
    ELSE UNK

\* position i holds one of the two digits of an escape
InEscape(s, i) == (i > 1 /\ s[i - 1] = "%") \/ (i > 2 /\ s[i - 2] = "%")

\* decodeURIComponent (network.ts 243): ok is FALSE where it throws
decodeURIComponent(s) ==
    IF \E i \in 1..Len(s) : s[i] = "%" /\ EscapedChar(s, i) = UNK
    THEN [ok |-> FALSE, s |-> <<>>]
    ELSE [ok |-> TRUE,
          s |-> Flatten([i \in 1..Len(s) |->
                           IF s[i] = "%" THEN << EscapedChar(s, i) >>
                           ELSE IF InEscape(s, i) THEN <<>>
                           ELSE << s[i] >>])]

\* the decimal digits of a byte
Decimal(n) ==
    IF n >= 100 THEN <<Digits[(n \div 100) + 1], Digits[((n \div 10) % 10) + 1],
                       Digits[(n % 10) + 1]>>
    ELSE IF n >= 10 THEN <<Digits[(n \div 10) + 1], Digits[(n % 10) + 1]>>
    ELSE <<Digits[n + 1]>>

\* the bytes of a token written as integers separated by blanks
byteSequenceOf(s) ==
    Join([i \in 1..Len(s) |-> Decimal(CodeOf(s[i]))], <<SP>>)

\* input.split(/\s+/): the maximal runs without white space
Fields(s) ==
    LET index == [i \in 1..Len(s) |-> i]
        starts == SelectSeq(index, LAMBDA i : ~IsWS(s[i]) /\ (i = 1 \/ IsWS(s[i - 1])))
        ends == SelectSeq(index,
                          LAMBDA i : ~IsWS(s[i]) /\ (i = Len(s) \/ IsWS(s[i + 1])))
    IN  [k \in 1..Len(starts) |-> SubSeq(s, starts[k], ends[k])]

\* .map((v) => Number(v)) (network.ts 223)
NumbersOf(finite) == [i \in 1..Len(finite) |-> Number(finite[i])]

\* the text of the bytes, null if there are none or one is above 255
\* (network.ts 224-227)
BytesText(values) ==
    IF Len(values) = 0 \/ (\E i \in 1..Len(values) : values[i] > 255)
    THEN <<>>
    ELSE [i \in 1..Len(values) |-> CharAt(values[i])]

\* parseSDPFromQR.decodeNumericBytes (network.ts 222-231): <<>> stands for null
decodeNumericBytes(input) ==
    BytesText(NumbersOf(SelectSeq(Fields(input), LAMBDA f : AllDigits(f))))

\* /^\d+(\s+\d+)+$/
IsNumericSequence(s) ==
    /\ Len(s) > 0
    /\ IsDigit(s[1]) /\ IsDigit(s[Len(s)])
    /\ \A i \in 1..Len(s) : IsDigit(s[i]) \/ IsWS(s[i])
    /\ \E i \in 1..Len(s) : IsWS(s[i])

\* /%[0-9A-Fa-f]{2}/
HasPercentEscape(s) ==
    \E i \in 1..(Len(s) - 2) : s[i] = "%" /\ IsHex(s[i + 1]) /\ IsHex(s[i + 2])

\* /^[A-Za-z0-9+/=]+$/ and a length that is a multiple of four
LooksBase64(s) ==
    /\ Len(s) > 0
    /\ \A i \in 1..Len(s) : IsB64(s[i]) \/ s[i] = "="
    /\ Len(s) % 4 = 0

-----------------------------------------------------------------------------
(* formatSDPForQR and parseSDPFromQR (network.ts 62-264) *)

\* the document inside a description that is itself a JSON record
\* (network.ts 68, 75); thrown where JSON.parse or sdp.sdp.split throws
innerText(inner) ==
    IF inner.ok /\ IsRecordValue(inner.v) /\ inner.v.sdp.k = "string"
    THEN [thrown |-> FALSE, text |-> inner.v.sdp.s]
    ELSE [thrown |-> TRUE, text |-> <<>>]

\* the document text formatSDPForQR works on (network.ts 65-75)
sdpText(d) ==
    IF StartsWith(Trim(d.sdp), <<"{">>)
    THEN innerText(JSONparse(d.sdp, 1))
    ELSE [thrown |-> FALSE, text |-> d.sdp]

\* encodeText with the kind of every payload written as "offer"
encodeTextOfferOnly(d, t) ==
    IF t.thrown THEN JSONstringify(d)
    ELSE compressToBase64(
            JSONstringify([type |-> <<"offer">>, sdp |-> compressedSDP(t.text)]))

\* the payload is stringified and compressed (network.ts 168-180), or the
\* catch returns the data as JSON (network.ts 181-184)
encodeText(d, t) ==
    IF t.thrown THEN JSONstringify(d)
    ELSE compressToBase64(
            JSONstringify([type |-> d.type, sdp |-> compressedSDP(t.text)]))

\* the value of compressedSDP when formatSDPForQR returns (network.ts 168),
\* <<>> where it threw before
keptLines(t) == IF t.thrown THEN <<>> ELSE compressedSDP(t.text)

\* formatSDPForQR (network.ts 62-185); data = [type, sdp], both strings
formatSDPForQR(d) == encodeText(d, sdpText(d))

\* the loop of the earlier formatSDPForQR (part_001 69-91): the lines of the
\* essential prefixes, and candidate lines while fewer than three are kept
RECURSIVE legacyFilter(_, _, _)
legacyFilter(lines, i, compressedLines) ==
    IF i > Len(lines) THEN compressedLines
    ELSE IF LineStarts(lines[i], {"v=", "o=", "s=", "t=", "c=", "m=", "a=rtcp:",
                                  "a=ice-ufrag:", "a=ice-pwd:", "a=fingerprint:",
                                  "a=setup:"})
    THEN legacyFilter(lines, i + 1, Append(compressedLines, lines[i]))
    ELSE IF /\ LineStarts(lines[i], {"a=candidate:"})
            /\ Len(SelectSeq(compressedLines,
                             LAMBDA l : LineStarts(l, {"a=candidate:"}))) < 3
    THEN legacyFilter(lines, i + 1, Append(compressedLines, lines[i]))
    ELSE legacyFilter(lines, i + 1, compressedLines)

\* the record is stringified as it is (part_001 93-99), or the catch returns
\* the data as JSON (part_001 100-103)
legacyEncodeText(d, t) ==
    IF t.thrown THEN JSONstringify(d)
    ELSE JSONstringify([type |-> d.type,
                        sdp |-> Join(legacyFilter(Split(t.text, LF), 1, <<>>), <<LF>>)])

\* the earlier formatSDPForQR (part_001 57-104): data.sdp is parsed as JSON
\* whatever it begins with, and nothing is compressed
legacyFormatSDPForQR(d) == legacyEncodeText(d, innerText(JSONparse(d.sdp, 1)))

\* the repair of escaped line breaks (network.ts 196-198, 209-211)
FixLineBreaks(sdp) ==
    IF Includes(sdp, <<BS, "r", BS, "n">>)
    THEN ReplaceAll(ReplaceAll(sdp, <<BS, "r", BS, "n">>, <<CR, LF>>),
                    <<BS, "n">>, <<LF>>)
    ELSE sdp

HasStringSdp(v) == Truthy(v) /\ IsRecordValue(v) /\ v.sdp.k = "string"

\* the line breaks of a parsed record are repaired (network.ts 194-199)
withLineBreaks(v) ==
    IF HasStringSdp(v) THEN [v EXCEPT !.sdp = JStr(FixLineBreaks(v.sdp.s))] ELSE v

\* JSON.parse of the decompressed text (network.ts 193-200)
returnParsed(p) ==
    IF p.ok THEN [returned |-> TRUE, v |-> withLineBreaks(p.v)]
    ELSE [returned |-> FALSE, v |-> JNull]

\* if (decompressed) (network.ts 192)
parseDecompressed(decompressed) ==
    IF ~decompressed.null /\ decompressed.s # <<>>
    THEN returnParsed(JSONparse(decompressed.s, 2))
    ELSE [returned |-> FALSE, v |-> JNull]

\* tryParse, first attempt (network.ts 189-204): decompress, then parse
tryDecompressed(text) == parseDecompressed(decompressFromBase64(text))

\* a record whose sdp is itself JSON is parsed once more (network.ts 212-214)
innerSdp(v, inner) == IF ~inner.ok THEN JNull ELSE [v EXCEPT !.sdp = inner.v]

nestedSdp(v, fixed) ==
    IF StartsWith(Trim(fixed), <<"{">>)
    THEN innerSdp(v, JSONparse(fixed, 1))
    ELSE [v EXCEPT !.sdp = JStr(fixed)]

\* what the second attempt returns for a parsed text (network.ts 207-216)
directParsed(p) ==
    IF ~p.ok THEN JNull
    ELSE IF ~HasStringSdp(p.v) THEN p.v
    ELSE nestedSdp(p.v, FixLineBreaks(p.v.sdp.s))

\* tryParse, second attempt (network.ts 206-219): parse the text as it is
tryDirect(text) == directParsed(JSONparse(text, 2))

\* the first attempt returns, or the second is made
firstOrDirect(first, text) == IF first.returned THEN first.v ELSE tryDirect(text)

\* parseSDPFromQR.tryParse (network.ts 188-220)
tryParse(text) == firstOrDirect(tryDecompressed(text), text)

\* if (decoded) candidates.push(decoded) (network.ts 238)
pushDecoded(decoded) == IF decoded # <<>> THEN << decoded >> ELSE <<>>

\* candidates.push(...) unless the conversion throws (network.ts 242-246, 250-254)
pushUnlessThrown(r) == IF r.ok THEN << r.s >> ELSE <<>>

\* candidates without the decoded forms of the text
candidatesTextOnly(trimmed) == << trimmed >>

\* candidates with the decoded forms tried before the text
candidatesDecodedFirst(trimmed) ==
    (IF IsNumericSequence(trimmed)
     THEN pushDecoded(decodeNumericBytes(trimmed)) ELSE <<>>)
    \o (IF HasPercentEscape(trimmed)
        THEN pushUnlessThrown(decodeURIComponent(trimmed)) ELSE <<>>)
    \o (IF LooksBase64(trimmed)
        THEN pushUnlessThrown(atob(trimmed)) ELSE <<>>)
    \o << trimmed >>

\* the candidate strings, in the order they are tried (network.ts 233-255)
candidates(trimmed) ==
    << trimmed >>
    \o (IF IsNumericSequence(trimmed)
        THEN pushDecoded(decodeNumericBytes(trimmed)) ELSE <<>>)
    \o (IF HasPercentEscape(trimmed)
        THEN pushUnlessThrown(decodeURIComponent(trimmed)) ELSE <<>>)
    \o (IF LooksBase64(trimmed)
        THEN pushUnlessThrown(atob(trimmed)) ELSE <<>>)

\* the first truthy result, null if there is none (network.ts 257-263)
firstTruthy(results) ==
    LET hits == {i \in 1..Len(results) : Truthy(results[i])}
    IN  IF hits = {} THEN JNull ELSE results[MinOf(hits)]

\* tryParse of every candidate
parsedCandidates(cands) == [i \in 1..Len(cands) |-> tryParse(cands[i])]

\* parseSDPFromQR (network.ts 187-264)
parseSDPFromQR(dataString) ==
    firstTruthy(parsedCandidates(candidates(Trim(dataString))))

-----------------------------------------------------------------------------
(* The codec harness: a description is encoded, carried and decoded *)

Line_v == <<"v=", "0">>
Line_mAudio == <<"m=", "audio", SP, "9", SP, "RTP", SP, "1", "1", "1">>
Line_mVideo == <<"m=", "video", SP, "9", SP, "RTP", SP, "9", "6">>
Line_setup == <<"a=setup:", "actpass">>
Line_extmap == <<"a=extmap:", "1">>
Line_candidate ==
    <<"a=candidate:", "1", SP, "1", SP, "udp", SP, "1", SP,
      "1", "0", ".", "0", ".", "0", ".", "5", SP, "9", SP, "typ", SP, "host">>

DocLines == {Line_v, Line_mAudio, Line_mVideo, Line_setup, Line_extmap,
             Line_candidate}

\* the documents: up to MaxLines lines, ended by LF or by CR LF
LineSeqs == UNION {[1..n -> DocLines] : n \in 1..MaxLines}

Document(lines, eol) ==
    Join([i \in 1..Len(lines) |-> lines[i] \o SubSeq(eol, 1, Len(eol) - 1)],
         <<LF>>) \o <<LF>>

Documents == {Document(ls, eol) : ls \in LineSeqs, eol \in {<<LF>>, <<CR, LF>>}}

Kinds == {<<"offer">>, <<"answer">>}

Descriptions == [type : Kinds, sdp : Documents]

NoData == [type |-> <<>>, sdp |-> <<>>]

\* tokens that no encoder made, and uncompressed records of earlier encoders
RawTokens ==
    { <<>>, <<"7">>, <<"a", "b", "c">>, <<"null">>,
      <<"{", DQ, "a", DQ, ":", "1", "}">>,
      JSONstringify([type |-> <<"bogus">>, sdp |-> Document(<<Line_v>>, <<LF>>)]),
      JSONstringify([type |-> <<"offer">>,
                     sdp |-> Document(<<Line_v, Line_mAudio>>, <<LF>>)]),
      JSONstringify([type |-> <<"answer">>,
                     sdp |-> JSONstringify([type |-> <<"answer">>,
                                            sdp |-> Document(<<Line_mAudio>>, <<LF>>)])]),
      JSONstringify([type |-> <<"offer">>, sdp |-> <<"{", "7">>]),
      \* a record whose text holds a percent escape
      JSONstringify([type |-> <<"offer">>, sdp |-> <<"v=", "%", "4", "1">>]),
      \* records whose text holds escaped line breaks
      JSONstringify([type |-> <<"offer">>,
                     sdp |-> Line_v \o <<BS, "r", BS, "n">> \o Line_mAudio
                             \o <<BS, "n">>]),
      JSONstringify([type |-> <<"offer">>,
                     sdp |-> Line_v \o <<BS, "n">> \o Line_mAudio]),
      \* a compressed record whose text is itself a record
      compressToBase64(
          JSONstringify([type |-> <<"answer">>,
                         sdp |-> JSONstringify([type |-> <<"answer">>,
                                                sdp |-> Document(<<Line_mAudio>>,
                                                                 <<LF>>)])])) }

\* descriptions whose text begins with "{": a record, a record without text,
\* and a text that is no JSON
OddDescriptions ==
    { [type |-> <<"offer">>,
       sdp |-> JSONstringify([type |-> <<"offer">>,
                              sdp |-> Document(<<Line_v, Line_mAudio>>, <<CR, LF>>)])],
      [type |-> <<"answer">>, sdp |-> <<"{", DQ, "a", DQ, ":", "1", "}">>],
      [type |-> <<"offer">>, sdp |-> <<"{", "7">>] }

\* a candidate line with the given transport, address and type
CandidateLine(transport, address, type) ==
    <<"a=candidate:", "1", SP, "1", SP, transport, SP, "1", SP>>
    \o address \o <<SP, "9", SP, "typ", SP, type>>

Addr_10 == <<"1", "0", ".", "0", ".", "0", ".", "5">>
Addr_192 == <<"1", "9", "2", ".", "1", "6", "8", ".", "1", ".", "2">>
Addr_172 == <<"1", "7", "2", ".", "1", "6", ".", "0", ".", "9">>
Addr_public == <<"8", ".", "8", ".", "8", ".", "8">>
Addr_mdns == <<"x", ".", "local">>

Line_rtpmap == <<"a=rtpmap:", "1", "1", "1", SP, "opus">>
Line_end == <<"a=end-of-candidates">>

\* the lines of the documents whose kept lines are examined: one line of
\* every class the filter tells apart, and candidates of every sort
ReduceLines ==
    { Line_v, Line_mAudio, Line_setup, Line_rtpmap, Line_extmap, Line_end,
      CandidateLine("udp", Addr_10, "host"),
      CandidateLine("udp", Addr_192, "host"),
      CandidateLine("udp", Addr_172, "host"),
      CandidateLine("udp", Addr_public, "host"),
      CandidateLine("udp", Addr_mdns, "host"),
      CandidateLine("udp", Addr_10, "srflx"),
      CandidateLine("tcp", Addr_10, "host"),
      CandidateLine("UDP", Addr_10, "host") }

\* the documents of up to longest lines, as offers
ReduceLineSeqs(longest) == UNION {[1..n -> ReduceLines] : n \in 1..longest}

ReduceDescriptions(longest) ==
    {[type |-> <<"offer">>, sdp |-> Document(ls, <<CR, LF>>)] :
        ls \in ReduceLineSeqs(longest)}

-----------------------------------------------------------------------------
(* The negotiation controller: the App component *)

\* AppState (types.ts)
HOME == "HOME"
GENERATING_OFFER == "GENERATING_OFFER"
SHOWING_OFFER == "SHOWING_OFFER"
SCANNING_OFFER == "SCANNING_OFFER"
GENERATING_ANSWER == "GENERATING_ANSWER"
SHOWING_ANSWER == "SHOWING_ANSWER"
SCANNING_ANSWER == "SCANNING_ANSWER"
CONNECTED == "CONNECTED"

\* the messages of setError and of setWarning
NoError == "null"
NoWarning == "null"

\* the lengths the manual input compares against
ManualErrorLength == 20
AutoSubmitLength == 50

Sessions == 1..MaxSessions

\* a session before startCall or processOffer has made it
NoSession ==
    [pc |-> "unused",         \* where its async function stands
     kind |-> "none",         \* "host": startCall, "guest": processOffer
     peer |-> "none",         \* the RTCPeerConnection: "none", "open", "closed"
     sig |-> "stable",        \* peer.signalingState
     gath |-> "new",          \* peer.iceGatheringState
     ice |-> "new",           \* peer.iceConnectionState, as far as the handlers tell
     handlers |-> FALSE,      \* the two connection-state handlers are attached
     media |-> "none",        \* the MediaStream of getUserMedia: "none", "live", "stopped"
     remote |-> FALSE,        \* a remote description is applied
     local |-> "none",        \* the local description set: "none", "offer", "answer"
     track |-> "none",        \* the remote track event: "none", "pending", "delivered"
     timeoutId |-> "off",     \* the gathering timeout: "off", "armed"
     checkInterval |-> "off", \* the gathering poll
     trackTimer |-> "off",    \* the 100 ms timer of ontrack
     ended |-> FALSE]         \* history: endCall ran after the session was made

\* the descriptions the engine of this device produces, one per session
Line_ufrag(i) == <<"a=ice-ufrag:", Digits[i + 1]>>

LocalDescription(i) ==
    Document(<<Line_v, Line_ufrag(i), Line_mAudio, Line_candidate>>, <<CR, LF>>)

\* the tokens of the other device, and texts that are no tokens
RemoteOffer ==
    formatSDPForQR([type |-> <<"offer">>,
                    sdp |-> Document(<<Line_v, Line_mAudio>>, <<CR, LF>>)])
RemoteAnswer ==
    formatSDPForQR([type |-> <<"answer">>,
                    sdp |-> Document(<<Line_v, Line_mAudio>>, <<CR, LF>>)])
LongJunk == [i \in 1..(AutoSubmitLength + 1) |-> "x"]
ShortJunk == <<"a", "b", "c">>

\* the token of an offer none of whose lines formatSDPForQR keeps, as the byte
\* sequence a scanner reads it
OfferWithoutText ==
    byteSequenceOf(formatSDPForQR([type |-> <<"offer">>,
                                   sdp |-> Document(<<Line_extmap>>, <<CR, LF>>)]))

\* a record of eighteen characters whose type and sdp are numbers
ShortRecord == <<"{", DQ, "type", DQ, ":", "1", ",", DQ, "sdp", DQ, ":", "1", "}">>

Supplied ==
    {RemoteOffer, RemoteAnswer, OfferWithoutText, LongJunk, ShortJunk, ShortRecord}

\* parseSDPFromQR on the supplied texts, computed once
ParsedSupplied == [t \in Supplied |-> parseSDPFromQR(t)]

\* the tokens of this device, computed once
LocalToken ==
    [i \in Sessions |->
        [k \in Kinds |-> formatSDPForQR([type |-> k, sdp |-> LocalDescription(i)])]]

\* the state of the component, as one record the handlers transform
State ==
    [appState |-> appState, role |-> role, error |-> error, warning |-> warning,
     signalString |-> signalString, qrCodeData |-> qrCodeData,
     remoteStream |-> remoteStream, pcCurrent |-> pcCurrent,
     localStream |-> localStream, sess |-> sess, created |-> created,
     answers |-> answers, clipboard |-> clipboard, qrJobs |-> qrJobs,
     fallbackTimer |-> fallbackTimer, warningTimer |-> warningTimer]

setAppState(c, v) == [c EXCEPT !.appState = v]
setError(c, v) == [c EXCEPT !.error = v]
setWarning(c, v) == [c EXCEPT !.warning = v]

\* endCall (App.tsx 618-635): stops the tracks of localStream.current, detaches
\* the two handlers of pc.current and closes it, and resets the view
endCall(c) ==
    LET stopped == IF c.localStream # 0
                   THEN [c EXCEPT !.sess[c.localStream].media = "stopped",
                                  !.localStream = 0]
                   ELSE c
        closed == IF stopped.pcCurrent # 0
                  THEN [stopped EXCEPT !.sess[stopped.pcCurrent].handlers = FALSE,
                                       !.sess[stopped.pcCurrent].peer = "closed",
                                       !.sess[stopped.pcCurrent].sig = "closed",
                                       !.pcCurrent = 0]
                  ELSE stopped
    IN  [closed EXCEPT !.remoteStream = 0,
                       !.appState = HOME,
                       !.role = "null",
                       !.signalString = <<>>,
                       !.sess = [i \in Sessions |->
                                    [closed.sess[i] EXCEPT
                                        !.ended = closed.sess[i].pc # "unused"]]]

\* handleRetry (App.tsx 637-641)
handleRetry(c) == setWarning(setError(endCall(c), NoError), NoWarning)

\* initializePeerConnection up to its first await (App.tsx 140-262): a new
\* RTCPeerConnection with its handlers, and getUserMedia asked for video and audio
initializePeerConnection(c, kind) ==
    LET i == c.created + 1
    IN  IF i > MaxSessions THEN [c EXCEPT !.created = i]
        ELSE [c EXCEPT !.created = i,
                       !.sess[i] = [NoSession EXCEPT !.pc = "gumVideo",
                                                     !.kind = kind,
                                                     !.peer = "open",
                                                     !.handlers = TRUE]]

\* startCall up to its first await (App.tsx 349-354)
startCall(c) ==
    initializePeerConnection(
        [c EXCEPT !.role = "host", !.error = NoError, !.appState = GENERATING_OFFER],
        "host")

\* joinCall (App.tsx 378-386), DEBUG_MODE being off
joinCall(c) == [c EXCEPT !.role = "peer", !.error = NoError, !.appState = SCANNING_OFFER]

\* processOffer up to its first await (App.tsx 459-463)
processOffer(c, signal) ==
    initializePeerConnection(setAppState(c, GENERATING_ANSWER), "guest")

\* what setRemoteDescription does when called (App.tsx 559): the call joins the
\* operations of the connection
callSetRemoteDescription(c) ==
    IF c.pcCurrent = 0 THEN setError(c, "Handshake failed")
    ELSE [c EXCEPT !.answers = Append(@, [stage |-> "setRemote", peer |-> c.pcCurrent])]

\* processAnswer without the test of signalingState
processAnswerAtOnce(c, signal) ==
    IF c.pcCurrent = 0 THEN setError(c, "Connection not established. Start a call first.")
    ELSE callSetRemoteDescription(c)

\* processAnswer up to its first await (App.tsx 529-559)
processAnswer(c, signal) ==
    IF c.pcCurrent = 0 THEN setError(c, "Connection not established. Start a call first.")
    ELSE IF c.sess[c.pcCurrent].sig # "have-local-offer"
    THEN [c EXCEPT !.answers = Append(@, [stage |-> "delay", peer |-> 0])]
    ELSE callSetRemoteDescription(c)

\* signal.type as the comparisons of the handlers see it
TypeOf(signal) ==
    IF IsRecordValue(signal) /\ signal.type.k = "string" THEN signal.type.s ELSE <<>>

\* handleScanOffer after parseSDPFromQR (App.tsx 393-403)
scanOffer(c, signal) ==
    IF ~Truthy(signal) \/ TypeOf(signal) # <<"offer">>
    THEN setError(c, "Invalid QR Code. Expected an Offer from the Caller.")
    ELSE processOffer(c, signal)

\* handleScanOffer (App.tsx 388-407)
handleScanOffer(c, dataString) == scanOffer(c, ParsedSupplied[dataString])

\* scanAnswer without the test of signal.type
scanAnswerAnyKind(c, signal) ==
    IF ~Truthy(signal)
    THEN setError(c, "Invalid QR Code. Expected an Answer from the Caller.")
    ELSE processAnswer(c, signal)

\* handleScanAnswer after parseSDPFromQR (App.tsx 509-519)
scanAnswer(c, signal) ==
    IF ~Truthy(signal) \/ TypeOf(signal) # <<"answer">>
    THEN setError(c, "Invalid QR Code. Expected an Answer from the Caller.")
    ELSE processAnswer(c, signal)

\* handleScanAnswer (App.tsx 504-523)
handleScanAnswer(c, dataString) == scanAnswer(c, ParsedSupplied[dataString])

\* if (signal && signal.type && signal.sdp) (App.tsx 423)
Usable(signal) ==
    /\ Truthy(signal)
    /\ IsRecordValue(signal)
    /\ Truthy(signal.type)
    /\ Truthy(signal.sdp)

\* handleManualInput after parseSDPFromQR (App.tsx 423-453)
manualInput(c, rendered, cleanStr, signal) ==
    IF cleanStr = <<>> THEN c
    ELSE IF Usable(signal)
    THEN IF rendered \in {SCANNING_OFFER, HOME}
         THEN IF TypeOf(signal) = <<"offer">>
              THEN processOffer(c, signal)
              ELSE setError(c, "Incorrect code. Expected an OFFER (from Caller).")
         ELSE IF rendered = SCANNING_ANSWER
         THEN IF TypeOf(signal) = <<"answer">>
              THEN processAnswer(c, signal)
              ELSE setError(c, "Incorrect code. Expected an ANSWER (from Caller).")
         ELSE setError(c, "Not in scanning mode. Start or join a call first.")
    ELSE IF Len(cleanStr) > ManualErrorLength
    THEN setError(c, "Invalid code format. Please ensure you copied the entire string.")
    ELSE c

\* handleManualInput (App.tsx 409-454); rendered is the appState of the render
\* whose closure runs
handleManualInput(c, rendered, inputStr) ==
    manualInput(c, rendered, Trim(inputStr), ParsedSupplied[inputStr])

\* generateQR up to its await (App.tsx 599-609)
generateQR(c, text) == [c EXCEPT !.qrJobs = Append(@, text)]

\* the end of startCall (App.tsx 362-371) and of processOffer (App.tsx 487-496)
showToken(c, i) ==
    LET host == c.sess[i].kind = "host"
        qrData == LocalToken[i][IF host THEN <<"offer">> ELSE <<"answer">>]
        shown == [generateQR(c, qrData) EXCEPT !.signalString = qrData,
                                               !.sess[i].pc = "done"]
    IN  setAppState(shown, IF host THEN SHOWING_OFFER ELSE SHOWING_ANSWER)

\* the promise of waitForIceGathering resolves (App.tsx 580, 585, 592): the
\* function that awaits it goes on, once
resolveWait(c, i) == IF c.sess[i].pc = "gather" THEN showToken(c, i) ELSE c

\* waitForIceGathering without the wait: the function that awaits it goes on
waitForIceGatheringAtOnce(c, i) == showToken(c, i)

\* waitForIceGathering (App.tsx 577-597)
waitForIceGathering(c, i) ==
    IF c.sess[i].gath = "complete"
    THEN showToken(c, i)
    ELSE [c EXCEPT !.sess[i].pc = "gather",
                   !.sess[i].timeoutId = "armed",
                   !.sess[i].checkInterval = "armed"]

\* initializePeerConnection after getUserMedia (App.tsx 278-295), and the call
\* its caller makes next (App.tsx 357, 481)
mediaGranted(c, i) ==
    [c EXCEPT !.localStream = i,
              !.sess[i].media = "live",
              !.pcCurrent = i,
              !.sess[i].pc = IF c.sess[i].kind = "host" THEN "createOffer"
                             ELSE "setRemote"]

\* the state after a handler: the refs and the states it set, then the effects
\* of the render (App.tsx 105-110, 123-134)
Apply(n) ==
    LET left == n.appState # appState
    IN  /\ n.created <= sessionCap
        /\ sessionCap' = sessionCap
        /\ Len(n.answers) <= MaxAnswers
        /\ appState' = n.appState
        /\ role' = n.role
        /\ error' = n.error
        /\ warning' = n.warning
        /\ signalString' = n.signalString
        /\ qrCodeData' = n.qrCodeData
        /\ remoteStream' = n.remoteStream
        /\ pcCurrent' = n.pcCurrent
        /\ localStream' = n.localStream
        /\ created' = n.created
        /\ answers' = n.answers
        /\ clipboard' = n.clipboard
        /\ qrJobs' = n.qrJobs
        /\ sess' = n.sess
        /\ fallbackTimer' =
              IF left
              THEN IF n.appState = SHOWING_ANSWER /\ n.pcCurrent # 0
                   THEN "armed" ELSE "off"
              ELSE n.fallbackTimer
        /\ warningTimer' =
              IF n.warning # warning
              THEN IF n.warning # NoWarning THEN "armed" ELSE "off"
              ELSE n.warningTimer
        /\ UNCHANGED <<codecVars, partVars>>

\* a callback of a promise, of the engine or of a timer has run
Commit(n) == Apply(n) /\ UNCHANGED clicks

\* a handler of the user interface has run
UserCommit(n) ==
    /\ clicks < MaxUserActions
    /\ Apply(n)
    /\ clicks' = clicks + 1

\* what the render shows (App.tsx 677, 701, 719)
ErrorModalShown == error # NoError
VideoCallShown == ~ErrorModalShown /\ appState = CONNECTED /\ localStream # 0
SetupShown == ~ErrorModalShown /\ ~VideoCallShown
ScannerShown == SetupShown /\ appState \in {SCANNING_OFFER, SCANNING_ANSWER}
TokenShown ==
    SetupShown /\ appState \in {SHOWING_OFFER, SHOWING_ANSWER} /\ qrCodeData # <<>>

CtlInit ==
    /\ appState = HOME
    /\ role = "null"
    /\ error = NoError
    /\ warning = NoWarning
    /\ signalString = <<>>
    /\ qrCodeData = <<>>
    /\ remoteStream = 0
    /\ pcCurrent = 0
    /\ localStream = 0
    /\ sess = [i \in Sessions |-> NoSession]
    /\ created = 0
    /\ answers = <<>>
    /\ clipboard = <<>>
    /\ qrJobs = <<>>
    /\ fallbackTimer = "off"
    /\ warningTimer = "off"
    /\ clicks = 0

Remove(seq, k) == SubSeq(seq, 1, k - 1) \o SubSeq(seq, k + 1, Len(seq))

----------------------------------------------------------------------------
(* What the user does *)

\* the CALL button (App.tsx 801)
ClickStart == SetupShown /\ appState = HOME /\ UserCommit(startCall(State))

\* the JOIN button (App.tsx 812)
ClickJoin == SetupShown /\ appState = HOME /\ UserCommit(joinCall(State))

\* the close button of the header, of the scanner, and the end of the video call
ClickEnd ==
    /\ (SetupShown /\ appState # HOME) \/ VideoCallShown
    /\ UserCommit(endCall(State))

\* the RETRY button of the error modal (App.tsx 691)
ClickRetry == ErrorModalShown /\ UserCommit(handleRetry(State))

\* "I Scanned Device B" (App.tsx 875)
ClickScanned ==
    /\ TokenShown /\ appState = SHOWING_OFFER
    /\ Commit(setAppState(State, SCANNING_ANSWER))

\* copyToClipboard (App.tsx 643-646)
ClickCopy == TokenShown /\ UserCommit(setWarning(State, "Code copied to clipboard!"))

\* the scanner reads a code (App.tsx 907-914)
Scan(dataString) ==
    /\ ScannerShown
    /\ UserCommit(IF appState = SCANNING_OFFER
              THEN handleScanOffer(State, dataString)
              ELSE handleScanAnswer(State, dataString))

\* the input changes (App.tsx 945-948)
onChange(c, rendered, value) ==
    IF Len(value) > AutoSubmitLength THEN handleManualInput(c, rendered, value) ELSE c

InputChange(value) == ScannerShown /\ UserCommit(onChange(State, appState, value))

\* a text is pasted into the input (App.tsx 938-944); the input then changes to
\* the pasted text if the render after onPaste still holds the input
afterPaste(pasted, val) ==
    IF pasted.error = NoError /\ pasted.appState \in {SCANNING_OFFER, SCANNING_ANSWER}
    THEN onChange(pasted, pasted.appState, val)
    ELSE pasted

InputPaste(val) ==
    /\ ScannerShown
    /\ UserCommit(afterPaste(handleManualInput(State, appState, val), val))

\* handlePasteFromClipboard up to its await (App.tsx 648-650)
ClickPaste ==
    /\ ScannerShown
    /\ Len(clipboard) < MaxClipboard
    /\ UserCommit([State EXCEPT !.clipboard = Append(@, appState)])

\* handlePasteFromClipboard after its await (App.tsx 651-657)
ClipboardRead(k, text) ==
    /\ k \in DOMAIN clipboard
    /\ LET read == [State EXCEPT !.clipboard = Remove(@, k)]
       IN  Commit(IF text = <<>> THEN read
                  ELSE handleManualInput(read, clipboard[k], text))

ClipboardDenied(k) ==
    /\ k \in DOMAIN clipboard
    /\ Commit(setError([State EXCEPT !.clipboard = Remove(@, k)],
                        "Could not access clipboard. Please paste manually."))

----------------------------------------------------------------------------
(* What the awaited calls, the engine and the timers do *)

\* getUserMedia with video resolves (App.tsx 262-271)
GumVideoOk(i) == sess[i].pc = "gumVideo" /\ Commit(mediaGranted(State, i))

\* GumVideoFail without the second getUserMedia: the failure is final
GumVideoFailNoRetry(i) ==
    /\ sess[i].pc = "gumVideo"
    /\ Commit(setError([State EXCEPT !.sess[i].pc = "done"],
                        "Could not access microphone or camera. Please check permissions."))

\* getUserMedia with video rejects (App.tsx 272-280)
GumVideoFail(i) ==
    /\ sess[i].pc = "gumVideo"
    /\ Commit(setWarning([State EXCEPT !.sess[i].pc = "gumAudio"],
                          "Video device failed. Switching to Audio-only mode."))

\* getUserMedia with audio only resolves
GumAudioOk(i) == sess[i].pc = "gumAudio" /\ Commit(mediaGranted(State, i))

\* getUserMedia with audio only rejects (App.tsx 288-292)
GumAudioFail(i) ==
    /\ sess[i].pc = "gumAudio"
    /\ Commit(setError([State EXCEPT !.sess[i].pc = "done"],
                        "Could not access microphone or camera. Please check permissions."))

\* createOffer resolves (App.tsx 357-358); a closed connection settles nothing
CreateOfferOk(i) ==
    /\ sess[i].pc = "createOffer" /\ sess[i].peer = "open"
    /\ Commit([State EXCEPT !.sess[i].pc = "setLocal"])

\* setRemoteDescription of the offer resolves (App.tsx 481-483)
SetRemoteOk(i) ==
    /\ sess[i].pc = "setRemote" /\ sess[i].peer = "open"
    /\ Commit([State EXCEPT !.sess[i].sig = "have-remote-offer",
                            !.sess[i].remote = TRUE,
                            !.sess[i].track = "pending",
                            !.sess[i].pc = "createAnswer"])

\* createAnswer resolves (App.tsx 483-484)
CreateAnswerOk(i) ==
    /\ sess[i].pc = "createAnswer" /\ sess[i].peer = "open"
    /\ Commit([State EXCEPT !.sess[i].pc = "setLocal"])

\* setLocalDescription resolves and waitForIceGathering is called
\* (App.tsx 358-359, 484-485)
SetLocalOk(i) ==
    /\ sess[i].pc = "setLocal" /\ sess[i].peer = "open"
    /\ \E g \in {"gathering", "complete"} :
          Commit(waitForIceGathering(
                    [State EXCEPT !.sess[i].sig = IF sess[i].kind = "host"
                                                  THEN "have-local-offer"
                                                  ELSE "stable",
                                  !.sess[i].local = IF sess[i].kind = "host"
                                                    THEN "offer" ELSE "answer",
                                  !.sess[i].gath = g], i))

\* an awaited call of the engine rejects (App.tsx 372-375, 497-501)
OpRejected(i) ==
    /\ sess[i].pc \in {"createOffer", "setLocal", "setRemote", "createAnswer"}
    /\ sess[i].peer = "open"
    /\ LET over == [State EXCEPT !.sess[i].pc = "done"]
       IN  Commit(IF sess[i].kind = "host"
                  THEN setError(over, "Failed to generate offer. Please retry.")
                  ELSE endCall(setError(over,
                          "Connection failed during negotiation. Ensure both devices are on same WiFi.")))

\* the engine finishes gathering
IceGatheringComplete(i) ==
    /\ sess[i].peer = "open" /\ sess[i].gath = "gathering"
    /\ Commit([State EXCEPT !.sess[i].gath = "complete"])

\* the poll of waitForIceGathering finds the gathering complete (App.tsx 588-594)
IntervalTick(i) ==
    /\ sess[i].checkInterval # "off" /\ sess[i].gath = "complete"
    /\ Commit(resolveWait([State EXCEPT !.sess[i].checkInterval = "off",
                                        !.sess[i].timeoutId = "off"], i))

\* GatherTimeout without its setWarning
GatherTimeoutSilent(i) ==
    /\ sess[i].timeoutId # "off"
    /\ Commit(resolveWait([State EXCEPT !.sess[i].timeoutId = "off"], i))

\* the timeout of waitForIceGathering fires (App.tsx 582-586)
GatherTimeout(i) ==
    /\ sess[i].timeoutId # "off"
    /\ Commit(resolveWait(setWarning([State EXCEPT !.sess[i].timeoutId = "off"],
                                     "Network discovery is taking longer than expected..."), i))

\* ontrack (App.tsx 219-247)
TrackArrives(i) ==
    /\ sess[i].peer = "open" /\ sess[i].track = "pending"
    /\ Commit([State EXCEPT
                  !.remoteStream = i,
                  !.sess[i].track = "delivered",
                  !.sess[i].trackTimer =
                      IF sess[i].sig \in {"have-remote-offer", "stable"}
                      THEN "armed" ELSE @])

\* the timer of ontrack fires (App.tsx 239-242)
TrackTimerFires(i) ==
    /\ sess[i].trackTimer # "off"
    /\ Commit(setAppState([State EXCEPT !.sess[i].trackTimer = "off"], CONNECTED))

\* both descriptions are applied and the connection can carry media
Negotiated(i) ==
    /\ sess[i].peer = "open" /\ sess[i].handlers
    /\ sess[i].remote /\ sess[i].sig = "stable"

\* oniceconnectionstatechange with connected or completed (App.tsx 195-200)
IceConnected(i) ==
    /\ Negotiated(i) /\ sess[i].ice = "new"
    /\ Commit(setAppState([State EXCEPT !.sess[i].ice = "connected"], CONNECTED))

\* oniceconnectionstatechange with failed (App.tsx 203-207)
IceFailed(i) ==
    /\ Negotiated(i) /\ sess[i].ice \in {"new", "connected"}
    /\ Commit(setError([State EXCEPT !.sess[i].ice = "failed"],
                        "Connection Failed - Network instability detected."))

\* onconnectionstatechange with disconnected or failed (App.tsx 167-178)
ConnectionLost(i) ==
    /\ Negotiated(i) /\ sess[i].ice \in {"new", "connected", "failed"}
    /\ Commit(setError([State EXCEPT !.sess[i].ice = "lost"],
                        "Connection lost. Peer disconnected."))

\* the timer of the SHOWING_ANSWER effect fires (App.tsx 125-131)
FallbackFires ==
    /\ fallbackTimer # "off"
    /\ LET fired == [State EXCEPT !.fallbackTimer = "off"]
       IN  Commit(IF pcCurrent # 0 /\ sess[pcCurrent].sig = "stable"
                  THEN setAppState(fired, CONNECTED)
                  ELSE fired)

\* the timer of the warning effect fires (App.tsx 107)
WarningTimerFires ==
    /\ warningTimer # "off"
    /\ Commit(setWarning([State EXCEPT !.warningTimer = "off"], NoWarning))

\* the 500 ms wait of processAnswer is over (App.tsx 541-559)
AnswerDelayOver(k) ==
    /\ k \in DOMAIN answers /\ answers[k].stage = "delay"
    /\ Commit(callSetRemoteDescription([State EXCEPT !.answers = Remove(@, k)]))

\* the engine settles its operations in the order they were called
NextToSettle(k) ==
    /\ k \in DOMAIN answers /\ answers[k].stage = "setRemote"
    /\ sess[answers[k].peer].peer = "open"
    /\ \A j \in 1..(k - 1) :
          ~(answers[j].stage = "setRemote" /\ answers[j].peer = answers[k].peer)

\* setRemoteDescription of the answer resolves (App.tsx 559-562)
AnswerSetRemoteOk(k) ==
    /\ NextToSettle(k)
    /\ sess[answers[k].peer].sig = "have-local-offer"
    /\ Commit([State EXCEPT !.answers = Remove(@, k),
                            !.sess[answers[k].peer].sig = "stable",
                            !.sess[answers[k].peer].remote = TRUE,
                            !.sess[answers[k].peer].track = "pending"])

\* setRemoteDescription of the answer rejects (App.tsx 563-570)
AnswerSetRemoteRejected(k) ==
    /\ NextToSettle(k)
    /\ Commit(setError([State EXCEPT !.answers = Remove(@, k)], "Handshake failed"))

\* QRCode.toDataURL resolves (App.tsx 604-611)
QRDone ==
    /\ qrJobs # <<>>
    /\ Commit([State EXCEPT !.qrCodeData = Head(qrJobs), !.qrJobs = Tail(qrJobs)])

\* QRCode.toDataURL rejects (App.tsx 612-615)
QRFailed ==
    /\ qrJobs # <<>>
    /\ Commit(setError([State EXCEPT !.qrJobs = Tail(qrJobs)],
                        "Failed to generate QR code. Data too large"))

----------------------------------------------------------------------------

UserStep ==
    \/ ClickStart
    \/ ClickJoin
    \/ ClickEnd
    \/ ClickRetry
    \/ ClickScanned
    \/ ClickCopy
    \/ \E t \in Supplied : Scan(t)
    \/ \E t \in Supplied : InputChange(t)
    \/ \E t \in Supplied : InputPaste(t)
    \/ ClickPaste
    \/ \E k \in 1..MaxClipboard, t \in Supplied \cup {<<>>} : ClipboardRead(k, t)
    \/ \E k \in 1..MaxClipboard : ClipboardDenied(k)

SessionStep(i) ==
    \/ GumVideoOk(i)
    \/ GumVideoFail(i)
    \/ GumAudioOk(i)
    \/ GumAudioFail(i)
    \/ CreateOfferOk(i)
    \/ SetRemoteOk(i)
    \/ CreateAnswerOk(i)
    \/ SetLocalOk(i)
    \/ OpRejected(i)
    \/ IceGatheringComplete(i)
    \/ IntervalTick(i)
    \/ GatherTimeout(i)
    \/ TrackArrives(i)
    \/ TrackTimerFires(i)
    \/ IceConnected(i)
    \/ IceFailed(i)
    \/ ConnectionLost(i)

OtherStep ==
    \/ FallbackFires
    \/ WarningTimerFires
    \/ \E k \in 1..MaxAnswers : AnswerDelayOver(k)
    \/ \E k \in 1..MaxAnswers : AnswerSetRemoteOk(k)
    \/ \E k \in 1..MaxAnswers : AnswerSetRemoteRejected(k)
    \/ QRDone
    \/ QRFailed

Next ==
    \/ UserStep
    \/ \E i \in Sessions : SessionStep(i)
    \/ OtherStep

----------------------------------------------------------------------------
(* The QR scanner: the camera effect of the QRScanner component *)

Starts == 1..MaxStarts

\* a call of startCamera that has not been made
NoStart ==
    [stage |-> "unused",   \* where the call stands: "gum", "play", "torch",
                           \* "scanning", "failed"
     attempt |-> 0,        \* the entry of constraintsList getUserMedia is tried with
     stream |-> "none",    \* the MediaStream it acquired: "none", "live", "stopped"
     loop |-> "off",       \* the frame callback of its scan loop: "off", "pending"
     cleaned |-> FALSE]    \* history: the cleanup of its effect has run

\* the component before it is mounted
NoScanner ==
    [mounted |-> FALSE,    \* the component is mounted
     rvfc |-> FALSE,       \* the video element has requestVideoFrameCallback
     error |-> FALSE,      \* useState error is not empty: no video element is rendered
     streamRef |-> 0,      \* streamRef.current: the call whose stream is held, 0 if none
     frameRef |-> 0,       \* frameCallbackRef.current or rafRef.current: the call
                           \* whose loop asked for the last frame, 0 if none
     scannedRef |-> FALSE, \* scannedRef.current
     started |-> 0,        \* number of startCamera calls made
     start |-> [k \in Starts |-> NoStart],
     scans |-> 0,          \* number of codes delivered to onScan
     lateScan |-> FALSE]   \* history: a loop delivered a code after its cleanup

\* getLocalIP before it is called
NoProbe ==
    [pc |-> "none",        \* the RTCPeerConnection: "none", "open", "closed"
     offer |-> "none",     \* the chain of createOffer: "createOffer", "setLocal",
                           \* "done", "failed"
     timeout |-> "off",    \* the 3 s timer: "off", "armed", "cleared", "fired"
     ipFound |-> FALSE,
     events |-> <<>>,      \* history: the candidates onicecandidate was called with
     promise |-> <<>>,     \* the value the promise is resolved with, <<>> while pending
     resolveCalls |-> 0]   \* number of calls of resolve

PartsUnused == scanner = NoScanner /\ probe = NoProbe

\* videoRef.current and canvasRef.current are set: the elements are rendered
\* (QRScanner.tsx 234-248)
videoRef(s) == s.mounted /\ ~s.error

\* stopCamera (QRScanner.tsx 28-37)
stopCamera(s) ==
    LET cancels == s.frameRef # 0 /\ (~s.rvfc \/ videoRef(s))
        cancelled == IF cancels THEN [s EXCEPT !.start[s.frameRef].loop = "off"] ELSE s
    IN  IF cancelled.streamRef # 0
        THEN [cancelled EXCEPT !.start[cancelled.streamRef].stream = "stopped",
                               !.streamRef = 0]
        ELSE cancelled

\* the cleanup of the effect (QRScanner.tsx 162-164)
cleanup(s) ==
    [stopCamera(s) EXCEPT
        !.start = [k \in Starts |->
                      [stopCamera(s).start[k] EXCEPT
                          !.cleaned = stopCamera(s).start[k].stage # "unused"]]]

\* startCamera up to its first await (QRScanner.tsx 53-70)
startCamera(s) ==
    LET k == s.started + 1
        stopped == stopCamera([s EXCEPT !.scannedRef = FALSE])
    IN  [stopped EXCEPT !.error = FALSE,
                        !.started = k,
                        !.start[k] = [NoStart EXCEPT !.stage = "gum", !.attempt = 1]]

\* scheduleNextFrame (QRScanner.tsx 151-158)
scheduleNextFrame(s, k) ==
    IF ~videoRef(s) THEN s
    ELSE [s EXCEPT !.start[k].loop = "pending", !.frameRef = k]

\* the end of startCamera (QRScanner.tsx 103-106)
cameraStarted(s, k) == scheduleNextFrame([s EXCEPT !.start[k].stage = "scanning"], k)

\* startCamera after video.play() (QRScanner.tsx 96-106)
afterPlay(s, k, torch) ==
    IF torch THEN [s EXCEPT !.start[k].stage = "torch"] ELSE cameraStarted(s, k)

\* scanFrame (QRScanner.tsx 109-149); code: jsQR finds a code in the frame
scanFrame(s, k, code) ==
    IF s.scannedRef THEN s
    ELSE IF code /\ videoRef(s)
    THEN [stopCamera([s EXCEPT !.scannedRef = TRUE]) EXCEPT
              !.scans = s.scans + 1,
              !.lateScan = s.lateScan \/ s.start[k].cleaned]
    ELSE scheduleNextFrame(s, k)

ScannerStep(n) ==
    /\ scanner' = n
    /\ UNCHANGED <<codecVars, ctlVars, clicks, sessionCap, probe>>

\* the scanner is closed or the phase changes: the component unmounts, its
\* refs to the elements are cleared and the cleanup runs
Unmount ==
    /\ scanner.mounted
    /\ ScannerStep(cleanup([scanner EXCEPT !.mounted = FALSE]))

\* facingMode, torchOn or restartCounter changes (QRScanner.tsx 206, 213, 219):
\* the cleanup runs, then the effect
Restart ==
    /\ scanner.mounted /\ scanner.started < MaxStarts
    /\ ScannerStep(startCamera(cleanup(scanner)))

\* getUserMedia rejects (QRScanner.tsx 68-82)
GumRejected(k) ==
    /\ scanner.start[k].stage = "gum"
    /\ ScannerStep(IF scanner.start[k].attempt < GumAttempts
                   THEN [scanner EXCEPT !.start[k].attempt = @ + 1]
                   ELSE [scanner EXCEPT !.start[k].stage = "failed",
                                        !.error = scanner.mounted])

\* getUserMedia resolves (QRScanner.tsx 70-94)
GumResolved(k, torch) ==
    /\ scanner.start[k].stage = "gum"
    /\ LET held == [scanner EXCEPT !.start[k].stream = "live", !.streamRef = k]
       IN  ScannerStep(IF videoRef(held)
                       THEN [held EXCEPT !.start[k].stage = "play"]
                       ELSE afterPlay(held, k, torch))

\* video.play() settles (QRScanner.tsx 90-101)
PlaySettled(k, torch) ==
    /\ scanner.start[k].stage = "play"
    /\ ScannerStep(afterPlay(scanner, k, torch))

\* applyTorch settles (QRScanner.tsx 100-106)
TorchSettled(k) ==
    /\ scanner.start[k].stage = "torch"
    /\ ScannerStep(cameraStarted(scanner, k))

\* the frame callback of a loop runs (QRScanner.tsx 154, 156)
Frame(k, code) ==
    /\ scanner.start[k].loop = "pending"
    /\ ScannerStep(scanFrame([scanner EXCEPT !.start[k].loop = "off"], k, code))

ScannerNext ==
    \/ Unmount
    \/ Restart
    \/ \E k \in Starts : GumRejected(k)
    \/ \E k \in Starts, torch \in BOOLEAN : GumResolved(k, torch)
    \/ \E k \in Starts, torch \in BOOLEAN : PlaySettled(k, torch)
    \/ \E k \in Starts : TorchSettled(k)
    \/ \E k \in Starts, code \in BOOLEAN : Frame(k, code)

\* the component has mounted and its effect has run once
ScannerInit ==
    /\ CtlInit
    /\ sessionCap = MaxSessions
    /\ data = NoData /\ reduced = <<>> /\ token = <<>> /\ wire = <<>> /\ parsed = JNull
    /\ cstage = "idle" /\ via = "none" /\ origin = "none" /\ calls = <<>>
    /\ probe = NoProbe
    /\ \E b \in BOOLEAN :
          scanner = startCamera([NoScanner EXCEPT !.mounted = TRUE, !.rvfc = b])

SpecScanner == ScannerInit /\ [][ScannerNext]_vars

----------------------------------------------------------------------------
(* getLocalIP: the probe for the address of this device *)

Unknown == <<"Unknown">>

Addr_loopback == <<"1", "2", "7", ".", "0", ".", "0", ".", "1">>
Addr_any == <<"0", ".", "0", ".", "0", ".", "0">>

\* the event whose candidate is null
NullCandidate == <<>>

\* the candidates the engine reports: private, public with a related private
\* address, mDNS, loopback, unspecified, and the null candidate
ProbeCandidates ==
    { CandidateLine("udp", Addr_10, "host"),
      CandidateLine("udp", Addr_public, "srflx") \o <<SP, "raddr", SP>> \o Addr_192,
      CandidateLine("udp", Addr_mdns, "host"),
      CandidateLine("udp", Addr_loopback, "host"),
      CandidateLine("udp", Addr_any, "host"),
      NullCandidate }

\* resolve of the promise: the first call settles it, a later call is without
\* effect
resolve(p, v) ==
    [p EXCEPT !.promise = IF @ = <<>> THEN v ELSE @, !.resolveCalls = @ + 1]

\* clearTimeout(timeout)
clearTimeout(p) == [p EXCEPT !.timeout = IF @ = "armed" THEN "cleared" ELSE @]

\* pc.close()
closeProbe(p) == [p EXCEPT !.pc = "closed"]

\* onicecandidate without clearTimeout
onicecandidateKeepingTimer(p, candidate) ==
    LET seen == [p EXCEPT !.events = Append(@, candidate)]
    IN  IF candidate = NullCandidate \/ p.ipFound THEN seen
        ELSE IF ipMatch(candidate) \notin {<<>>, Addr_loopback, Addr_any}
        THEN resolve(closeProbe([seen EXCEPT !.ipFound = TRUE]), ipMatch(candidate))
        ELSE seen

\* onicecandidate (network.ts 23-40)
onicecandidate(p, candidate) ==
    LET seen == [p EXCEPT !.events = Append(@, candidate)]
    IN  IF candidate = NullCandidate \/ p.ipFound THEN seen
        ELSE IF ipMatch(candidate) \notin {<<>>, Addr_loopback, Addr_any}
        THEN resolve(closeProbe(clearTimeout([seen EXCEPT !.ipFound = TRUE])),
                     ipMatch(candidate))
        ELSE seen

ProbeStep(n) ==
    /\ probe' = n
    /\ UNCHANGED <<codecVars, ctlVars, clicks, sessionCap, scanner>>

\* createOffer resolves and setLocalDescription is called (network.ts 42-43)
ProbeOfferCreated ==
    /\ probe.offer = "createOffer" /\ probe.pc = "open"
    /\ ProbeStep([probe EXCEPT !.offer = "setLocal"])

\* setLocalDescription resolves (network.ts 43): the gathering goes on
ProbeLocalSet ==
    /\ probe.offer = "setLocal" /\ probe.pc = "open"
    /\ ProbeStep([probe EXCEPT !.offer = "done"])

\* createOffer or setLocalDescription rejects (network.ts 44-49), also on a
\* connection that was closed in between
ProbeOfferRejected ==
    /\ probe.offer \in {"createOffer", "setLocal"}
    /\ ProbeStep(resolve(closeProbe(clearTimeout([probe EXCEPT !.offer = "failed"])),
                         Unknown))

\* the engine reports a candidate (network.ts 23-40)
ProbeCandidate(candidate) ==
    /\ probe.pc = "open" /\ probe.offer \in {"setLocal", "done"}
    /\ Len(probe.events) < MaxCandidates
    /\ ProbeStep(onicecandidate(probe, candidate))

\* the 3 s timer fires (network.ts 18-21)
ProbeTimeout ==
    /\ probe.timeout = "armed"
    /\ ProbeStep(resolve(closeProbe([probe EXCEPT !.timeout = "fired"]), Unknown))

ProbeNext ==
    \/ ProbeOfferCreated
    \/ ProbeLocalSet
    \/ ProbeOfferRejected
    \/ \E c \in ProbeCandidates : ProbeCandidate(c)
    \/ ProbeTimeout

\* getLocalIP has been called (network.ts 6-21, 42): the connection is made,
\* the timer is armed and createOffer is called
ProbeInit ==
    /\ CtlInit
    /\ sessionCap = MaxSessions
    /\ data = NoData /\ reduced = <<>> /\ token = <<>> /\ wire = <<>> /\ parsed = JNull
    /\ cstage = "idle" /\ via = "none" /\ origin = "none" /\ calls = <<>>
    /\ scanner = NoScanner
    /\ probe = [NoProbe EXCEPT !.pc = "open", !.offer = "createOffer",
                               !.timeout = "armed"]

\* setTimeout fires its callback once the delay is over
SpecProbe == ProbeInit /\ [][ProbeNext]_vars /\ WF_vars(ProbeTimeout)

----------------------------------------------------------------------------
(* The codec on its own: a description is encoded, carried and decoded *)

CodecInit ==
    /\ CtlInit
    /\ PartsUnused
    /\ sessionCap = MaxSessions
    /\ calls = <<>>
    /\ reduced = <<>>
    /\ wire = <<>>
    /\ parsed = JNull
    /\ via = "none"
    /\ \/ /\ origin \in {"encode", "legacy"} /\ cstage = "input"
          /\ data \in Descriptions \cup OddDescriptions /\ token = <<>>
       \/ /\ origin = "raw" /\ cstage = "encoded"
          /\ data = NoData /\ token \in RawTokens

Encode ==
    /\ cstage = "input"
    /\ origin = "encode"
    /\ token' = formatSDPForQR(data)
    /\ reduced' = keptLines(sdpText(data))
    /\ cstage' = "encoded"
    /\ UNCHANGED <<data, wire, parsed, via, origin, calls>>
    /\ UNCHANGED <<ctlVars, clicks, sessionCap, partVars>>

\* the description is encoded by the earlier formatSDPForQR
EncodeLegacy ==
    /\ cstage = "input"
    /\ origin = "legacy"
    /\ token' = legacyFormatSDPForQR(data)
    /\ cstage' = "encoded"
    /\ UNCHANGED <<data, reduced, wire, parsed, via, origin, calls>>
    /\ UNCHANGED <<ctlVars, clicks, sessionCap, partVars>>

Carry(how, arrived) ==
    /\ cstage = "encoded"
    /\ wire' = arrived
    /\ via' = how
    /\ cstage' = "sent"
    /\ UNCHANGED <<data, reduced, token, parsed, origin, calls>>
    /\ UNCHANGED <<ctlVars, clicks, sessionCap, partVars>>

CarryAsIs == Carry("none", token)
CarryPercent == Carry("percent", percentEncode(token))
CarryBytes == Carry("bytes", byteSequenceOf(token))
CarryBase64 == Carry("base64", btoa(token))

Decode ==
    /\ cstage = "sent"
    /\ parsed' = parseSDPFromQR(wire)
    /\ cstage' = "decoded"
    /\ UNCHANGED <<data, reduced, token, wire, via, origin, calls>>
    /\ UNCHANGED <<ctlVars, clicks, sessionCap, partVars>>

CodecNext ==
    \/ Encode
    \/ EncodeLegacy
    \/ CarryAsIs
    \/ CarryPercent
    \/ CarryBytes
    \/ CarryBase64
    \/ Decode

SpecCodec == CodecInit /\ [][CodecNext]_vars

\* formatSDPForQR alone, on the documents of ReduceDescriptions
ReduceInit ==
    /\ CtlInit
    /\ PartsUnused
    /\ sessionCap = MaxSessions
    /\ calls = <<>>
    /\ reduced = <<>>
    /\ token = <<>>
    /\ wire = <<>>
    /\ parsed = JNull
    /\ via = "none"
    /\ origin = "encode"
    /\ cstage = "input"
    /\ data \in ReduceDescriptions(MaxReduceLines)

SpecReduce == ReduceInit /\ [][Encode]_vars

\* parseSDPFromQR and formatSDPForQR called again and again, in any order,
\* while the controller changes its phase
EncodeInputs ==
    {[type |-> k, sdp |-> Document(<<Line_v, Line_mAudio>>, <<CR, LF>>)] : k \in Kinds}

\* a text that is no token, a record whose text holds escaped line breaks, and
\* a token that arrives percent-encoded
DecodeInputs ==
    { <<"a", "b", "c">>,
      JSONstringify([type |-> <<"offer">>,
                     sdp |-> Line_v \o <<BS, "r", BS, "n">> \o Line_mAudio
                             \o <<BS, "n">>]),
      percentEncode(formatSDPForQR([type |-> <<"offer">>,
                                    sdp |-> Document(<<Line_v>>, <<LF>>)])) }

DecodeInit ==
    /\ CtlInit
    /\ PartsUnused
    /\ sessionCap = MaxSessions
    /\ calls = <<>>
    /\ data = NoData /\ reduced = <<>> /\ token = <<>> /\ wire = <<>> /\ parsed = JNull
    /\ cstage = "calls" /\ via = "none" /\ origin = "none"

\* formatSDPForQR is called
EncodeCall(d) ==
    /\ cstage = "calls"
    /\ data' = d
    /\ token' = formatSDPForQR(d)
    /\ UNCHANGED <<reduced, wire, parsed, cstage, via, origin, calls>>
    /\ UNCHANGED <<ctlVars, clicks, sessionCap, partVars>>

\* a call of parseSDPFromQR returns result
returned(dataString, result) ==
    /\ cstage = "calls"
    /\ Len(calls) < MaxCalls
    /\ wire' = dataString
    /\ parsed' = result
    /\ calls' = Append(calls, [dataString |-> dataString, result |-> result,
                               appState |-> appState])
    /\ UNCHANGED <<data, reduced, token, cstage, via, origin>>
    /\ UNCHANGED <<ctlVars, clicks, sessionCap, partVars>>

\* a parseSDPFromQR that answers with the value of the call before when no
\* candidate parses
DecodeCallKeepingLast(dataString) ==
    returned(dataString,
             IF Truthy(parseSDPFromQR(dataString)) THEN parseSDPFromQR(dataString)
             ELSE parsed)

\* parseSDPFromQR is called (network.ts 187-264)
DecodeCall(dataString) == returned(dataString, parseSDPFromQR(dataString))

DecodeNext ==
    \/ \E d \in EncodeInputs : EncodeCall(d)
    \/ \E t \in DecodeInputs \cup {token} : DecodeCall(t)
    \/ ClickStart
    \/ ClickJoin
    \/ ClickEnd

SpecDecode == DecodeInit /\ [][DecodeNext]_vars

----------------------------------------------------------------------------
(* The controller *)

Init ==
    /\ CtlInit
    /\ PartsUnused
    /\ sessionCap = MaxSessions
    /\ data = NoData /\ reduced = <<>> /\ token = <<>> /\ wire = <<>> /\ parsed = JNull
    /\ cstage = "idle" /\ via = "none" /\ origin = "none" /\ calls = <<>>

Spec == Init /\ [][Next]_vars

\* setTimeout fires its callback once the delay is over: a gathering timeout
\* that is pending does not stay pending for ever
LiveInit ==
    /\ CtlInit
    /\ PartsUnused
    /\ sessionCap = MaxLiveSessions
    /\ data = NoData /\ reduced = <<>> /\ token = <<>> /\ wire = <<>> /\ parsed = JNull
    /\ cstage = "idle" /\ via = "none" /\ origin = "none" /\ calls = <<>>

SpecLive ==
    /\ LiveInit /\ [][Next]_vars
    /\ \A i \in Sessions : WF_vars(GatherTimeout(i))

-----------------------------------------------------------------------------
(* Properties of the codec *)

\* the media-section headers (m= lines) of a document text, in order
MediaHeaders(text) == SelectSeq(Split(text, LF), LAMBDA l : LineStarts(l, {"m="}))

\* a description was encoded, the token arrived as it was, and it was decoded
RoundTripDone == cstage = "decoded" /\ origin = "encode" /\ via = "none"

\* C1: for every description with at least one media section,
\* parseSDPFromQR(formatSDPForQR(d)) is a record whose kind is d's kind and
\* whose text holds every m= line of the reduced text (which are those of d),
\* in the original order.
C1_RoundTripKeepsKindAndMedia ==
    (RoundTripDone /\ MediaHeaders(data.sdp) # <<>>) =>
        /\ IsRecordValue(parsed)
        /\ parsed.type = JStr(data.type)
        /\ parsed.sdp.k = "string"
        /\ MediaHeaders(parsed.sdp.s) = MediaHeaders(compressedSDP(data.sdp))
        /\ MediaHeaders(parsed.sdp.s) = MediaHeaders(data.sdp)

\* an answer with an audio and a video section has made the round trip
C1_Witness ==
    /\ RoundTripDone
    /\ data.type = <<"answer">>
    /\ IsRecordValue(parsed)
    /\ parsed.type = JStr(<<"answer">>)
    /\ MediaHeaders(data.sdp) = <<Line_mAudio \o <<CR>>, Line_mVideo \o <<CR>> >>
    /\ MediaHeaders(parsed.sdp.s) = MediaHeaders(data.sdp)

C9_DecodeReturnsRecognizedRecordOrNull ==
    cstage = "decoded" =>
        \/ parsed = JNull
        \/ /\ IsRecordValue(parsed)
           /\ parsed.type \in {JStr(<<"offer">>), JStr(<<"answer">>)}
           /\ parsed.sdp.k = "string"

\* C10: for every valid token t made by formatSDPForQR (one that decodes to a
\* record), decoding percentEncode(t) and decoding byteSequenceOf(t) yield the
\* record that decoding t yields.
C10_FallbackDecodeEquivalence ==
    (/\ cstage = "decoded" /\ origin = "encode" /\ via \in {"percent", "bytes"}
     /\ IsRecordValue(parseSDPFromQR(token))) =>
        parsed = parseSDPFromQR(token)

\* a token whose percent-encoding differs from it was decoded from that
\* encoding
C10_Witness ==
    /\ cstage = "decoded" /\ origin = "encode" /\ via = "percent"
    /\ wire # token
    /\ HasPercentEscape(wire)
    /\ IsRecordValue(parsed)
    /\ parsed.type = JStr(data.type)

\* the candidate strings of a token in the order of the decoder: the token, its
\* byte-sequence decoding, its percent-decoding, its base64 decoding, each only
\* if the token has that form and the decoding exists
InOrder(t) ==
    << t >>
    \o (IF IsNumericSequence(t) /\ decodeNumericBytes(t) # <<>>
        THEN << decodeNumericBytes(t) >> ELSE <<>>)
    \o (IF HasPercentEscape(t) /\ decodeURIComponent(t).ok
        THEN << decodeURIComponent(t).s >> ELSE <<>>)
    \o (IF LooksBase64(t) /\ atob(t).ok THEN << atob(t).s >> ELSE <<>>)

\* decompress-then-parse if that returns, else direct parse
EitherAttempt(first, c) == IF first.returned THEN first.v ELSE tryDirect(c)

\* the result of the first candidate of cands, from position i, on which an
\* attempt yields a value; null if there is none
RECURSIVE FirstSuccess(_, _)
FirstSuccess(cands, i) ==
    IF i > Len(cands) THEN JNull
    ELSE IF Truthy(EitherAttempt(tryDecompressed(cands[i]), cands[i]))
    THEN EitherAttempt(tryDecompressed(cands[i]), cands[i])
    ELSE FirstSuccess(cands, i + 1)

\* C17: the candidate strings are tried in the order token, byte-sequence
\* decoding, percent-decoding, base64 decoding, on each first
\* decompress-then-parse and then direct parse; the result is that of the first
\* attempt that yields a value.
C17_CandidatesTriedInOrder ==
    cstage = "decoded" => parsed = FirstSuccess(InOrder(Trim(wire)), 1)

\* a record whose text holds a percent escape arrived as it was: the token
\* itself was parsed, before its percent-decoding
C17_Witness ==
    /\ cstage = "decoded" /\ via = "none" /\ origin = "raw"
    /\ HasPercentEscape(wire)
    /\ Len(InOrder(Trim(wire))) = 2
    /\ IsRecordValue(parsed)
    /\ parsed.sdp = JStr(<<"v=", "%", "4", "1">>)

\* C18: no record is returned whose text still holds an escaped line break
\* (backslash-r-backslash-n, or backslash-n alone).
C18_NoEscapedLineBreakReturned ==
    (cstage = "decoded" /\ IsRecordValue(parsed) /\ parsed.sdp.k = "string") =>
        ~Includes(parsed.sdp.s, <<BS, "n">>)

\* C19: a text that decompress-then-parse returns is treated as direct parse
\* treats it: a record whose text begins with "{" has it parsed one more level.
C19_NestedTextParsedOnBothPaths ==
    (cstage = "decoded" /\ via = "none" /\ tryDecompressed(Trim(wire)).returned) =>
        parsed = tryDirect(decompressFromBase64(Trim(wire)).s)

\* the token is a record serialized without compression: made by the earlier
\* formatSDPForQR, or by the catch of formatSDPForQR
Uncompressed ==
    \/ origin = "legacy"
    \/ origin = "encode" /\ sdpText(data).thrown

\* C20: formatSDPForQR returns the data as JSON where it cannot reduce it, and
\* every token that serializes a record {type, sdp} without compression decodes
\* to a record of that type and that text.
C20_UncompressedTokenDecodes ==
    /\ (cstage # "input" /\ origin = "encode" /\ sdpText(data).thrown)
          => token = JSONstringify(data)
    /\ (cstage = "decoded" /\ via = "none" /\ Uncompressed) =>
          \E text \in {data.sdp, reduced,
                       Join(legacyFilter(Split(innerText(JSONparse(data.sdp, 1)).text,
                                               LF), 1, <<>>), <<LF>>)} :
              /\ wire = JSONstringify([type |-> data.type, sdp |-> text])
              /\ parsed = JObj(JStr(data.type), JStr(text))

-----------------------------------------------------------------------------
(* Properties of the line filter *)

\* formatSDPForQR has run on the description
Reduced == cstage = "encoded" /\ origin = "encode"

\* the lines of the document and the lines that were kept
InLines == Split(data.sdp, LF)
OutLines == IF reduced = <<>> THEN <<>> ELSE Split(reduced, LF)

IsHeader(l) == Len(l) > 0 /\ l[1] = "m="
IsCandidate(l) == Len(l) > 0 /\ l[1] = "a=candidate:"
IsEndMarker(l) == Len(l) > 0 /\ l[1] = "a=end-of-candidates"

\* a line of a class that is always kept: session-level lines, media headers,
\* the attributes that occur once per section, codec mappings and parameters
IsAlwaysKept(l) ==
    /\ Len(l) > 0
    /\ l[1] \in {"v=", "o=", "s=", "t=", "c=", "m=",
                 "a=ice-ufrag:", "a=ice-pwd:", "a=fingerprint:", "a=setup:",
                 "a=rtcp-mux", "a=rtcp:", "a=mid:",
                 "a=sendrecv", "a=recvonly", "a=sendonly", "a=inactive",
                 "a=rtpmap:", "a=fmtp:"}

\* no two candidate lines of out without a media header between them
OneCandidatePerSection(out) ==
    \A j, k \in 1..Len(out) :
        (j < k /\ IsCandidate(out[j]) /\ IsCandidate(out[k]))
            => \E h \in j..k : IsHeader(out[h])

\* C11: in the kept lines every media section has at most one candidate line.
C11_AtMostOneCandidatePerSection ==
    Reduced => OneCandidatePerSection(OutLines)

\* a section with three private host candidates over UDP kept the first only
C11_Witness ==
    /\ Reduced
    /\ data.sdp = Document(<<Line_mAudio,
                             CandidateLine("udp", Addr_10, "host"),
                             CandidateLine("udp", Addr_192, "host"),
                             CandidateLine("udp", Addr_172, "host")>>, <<CR, LF>>)
    /\ reduced = Line_mAudio \o <<CR, LF>>
                 \o CandidateLine("udp", Addr_10, "host") \o <<CR>>

\* the dotted address a is an IPv4 address
IsIPv4(parts) ==
    /\ Len(parts) = 4
    /\ \A i \in 1..4 : AllDigits(parts[i]) /\ Number(parts[i]) <= 255

\* an IPv4 address of 10.0.0.0/8, 172.16.0.0/12 or 192.168.0.0/16
InPrivateRange(parts) ==
    \/ Number(parts[1]) = 10
    \/ Number(parts[1]) = 172 /\ Number(parts[2]) >= 16 /\ Number(parts[2]) <= 31
    \/ Number(parts[1]) = 192 /\ Number(parts[2]) = 168

\* the fields of a candidate line name UDP transport, host type and a private
\* IPv4 address or a host token that is no IPv4 address
QualifyingFields(f) ==
    /\ Len(f) >= 8
    /\ f[3] \in {<<"udp">>, <<"UDP">>}
    /\ f[7] = <<"typ">> /\ f[8] = <<"host">>
    /\ IsIPv4(Split(f[5], ".")) => InPrivateRange(Split(f[5], "."))

Qualifies(l) == IsCandidate(l) /\ QualifyingFields(Fields(l))

\* the media section line i of in belongs to, 0 before the first header
SectionOf(in, i) == Cardinality({j \in 1..i : IsHeader(in[j])})

\* the positions of the first qualifying candidate line of every media section
FirstQualifyingAt(in) ==
    SelectSeq([i \in 1..Len(in) |-> i],
              LAMBDA i :
                  /\ Qualifies(in[i])
                  /\ SectionOf(in, i) >= 1
                  /\ \A j \in 1..(i - 1) :
                        Qualifies(in[j]) => SectionOf(in, j) # SectionOf(in, i))

\* the lines of in at the positions at
LinesAt(in, at) == [k \in 1..Len(at) |-> in[at[k]]]

\* the first qualifying candidate line of every media section of in
FirstQualifying(in) == LinesAt(in, FirstQualifyingAt(in))

\* C12: the candidate lines kept are, for each media section, exactly the first
\* candidate line that uses UDP transport, is of host type and carries a private
\* IPv4 address or a host token that is no IPv4 address.
C12_FirstQualifyingCandidateKept ==
    Reduced => SelectSeq(OutLines, IsCandidate) = FirstQualifying(InLines)

\* C13: every session-level line, media header, once-per-section attribute,
\* codec mapping and codec parameter of the document is kept, unmodified.
C13_EssentialLinesKept ==
    Reduced => SelectSeq(OutLines, IsAlwaysKept) = SelectSeq(InLines, IsAlwaysKept)

\* a document of a version line, a header, a setup role and a codec mapping was
\* kept whole
C13_Witness ==
    /\ Reduced
    /\ data.sdp = Document(<<Line_v, Line_mAudio, Line_setup, Line_rtpmap>>, <<CR, LF>>)
    /\ OutLines = <<Line_v \o <<CR>>, Line_mAudio \o <<CR>>,
                    Line_setup \o <<CR>>, Line_rtpmap \o <<CR>> >>

\* a from position i on is a subsequence of b from position j on
RECURSIVE SubsequenceFrom(_, _, _, _)
SubsequenceFrom(a, i, b, j) ==
    IF i > Len(a) THEN TRUE
    ELSE IF j > Len(b) THEN FALSE
    ELSE IF a[i] = b[j] THEN SubsequenceFrom(a, i + 1, b, j + 1)
    ELSE SubsequenceFrom(a, i, b, j + 1)

\* every line of out is of a class that can be kept
OnlyKeptClasses(out) ==
    \A k \in 1..Len(out) :
        IsAlwaysKept(out[k]) \/ IsCandidate(out[k]) \/ IsEndMarker(out[k])

\* C14: the kept lines are lines of the document, in the order of the document,
\* and none of them is of a class that is dropped.
C14_OutputIsOrderedSubsequence ==
    Reduced =>
        /\ SubsequenceFrom(OutLines, 1, InLines, 1)
        /\ OnlyKeptClasses(OutLines)

\* an extension attribute between kept lines was dropped, the others kept in
\* order
C14_Witness ==
    /\ Reduced
    /\ data.sdp = Document(<<Line_v, Line_extmap, Line_mAudio, Line_setup>>, <<CR, LF>>)
    /\ OutLines = <<Line_v \o <<CR>>, Line_mAudio \o <<CR>>, Line_setup \o <<CR>> >>

\* every end marker of out follows a candidate line of its own section
EndMarkersFollowCandidate(out) ==
    \A k \in 1..Len(out) :
        IsEndMarker(out[k]) =>
            \E j \in 1..(k - 1) :
                /\ IsCandidate(out[j])
                /\ \A h \in j..k : ~IsHeader(out[h])
                /\ \E h \in 1..j : IsHeader(out[h])

\* C15: an end-of-candidates marker is kept only if a candidate line was kept
\* for the same media section.
C15_EndMarkerOnlyAfterKeptCandidate ==
    Reduced => EndMarkersFollowCandidate(OutLines)

\* of two markers of a section, the one before the kept candidate was dropped
\* and the one after it kept
C15_Witness ==
    /\ Reduced
    /\ data.sdp = Document(<<Line_mAudio, Line_end,
                             CandidateLine("udp", Addr_10, "host"), Line_end>>,
                           <<CR, LF>>)
    /\ OutLines = <<Line_mAudio \o <<CR>>,
                    CandidateLine("udp", Addr_10, "host") \o <<CR>>,
                    Line_end \o <<CR>> >>

IsSessionLevel(l) == Len(l) > 0 /\ l[1] \in {"v=", "o=", "s=", "t=", "c="}

\* C16: formatSDPForQR returns for every document, and of a document without a
\* media section exactly the session-level lines are kept.
C16_NoMediaKeepsSessionLinesOnly ==
    (Reduced /\ SelectSeq(InLines, IsHeader) = <<>>) =>
        /\ token # <<>>
        /\ OutLines = SelectSeq(InLines, IsSessionLevel)

-----------------------------------------------------------------------------
(* Properties of the controller *)

\* what a scanned or pasted text must decode to in the phase the scanner is in
Expected == IF appState = SCANNING_OFFER THEN <<"offer">> ELSE <<"answer">>

\* the text t reaches handleScanOffer / handleScanAnswer, or, being long enough
\* to be submitted, handleManualInput
Delivered(t) ==
    \/ Scan(t)
    \/ Len(t) > AutoSubmitLength /\ (InputChange(t) \/ InputPaste(t))

\* C2: in SCANNING_ANSWER a token that decodes to an offer, and in
\* SCANNING_OFFER a token that does not decode or decodes to an answer, leaves
\* the phase unchanged and raises an error; setRemoteDescription is not called
\* and no engine session is created.
C2_MismatchedTokenRejected ==
    [][\A t \in Supplied :
          (Delivered(t) /\ TypeOf(ParsedSupplied[t]) # Expected) =>
              /\ appState' = appState
              /\ error' # NoError
              /\ answers' = answers
              /\ created' = created
              /\ sess' = sess
              /\ pcCurrent' = pcCurrent]_vars

\* the host, waiting for the answer with its offer set, was handed a token that
\* decodes to an offer
C2_Witness ==
    /\ appState = SCANNING_ANSWER
    /\ error = "Incorrect code. Expected an ANSWER (from Caller)."
    /\ role = "host"
    /\ pcCurrent # 0
    /\ sess[pcCurrent].sig = "have-local-offer"
    /\ answers = <<>>

\* C3: endCall, in any phase, leaves the controller in HOME with every local
\* media track stopped, every engine session closed and every timer cancelled.
C3_EndCallTearsDown ==
    [][(ClickEnd \/ ClickRetry) =>
          /\ appState' = HOME
          /\ \A i \in Sessions :
                /\ sess'[i].media # "live"
                /\ sess'[i].peer # "open"
                /\ sess'[i].timeoutId = "off"
                /\ sess'[i].checkInterval = "off"
                /\ sess'[i].trackTimer = "off"
          /\ fallbackTimer' = "off"]_vars

\* C4: a continuation or notification of a session that endCall tore down
\* changes neither the phase, nor the held connection, nor the held media, nor
\* the exposed token.
C4_EndedSessionIsDiscarded ==
    [][\A i \in Sessions :
          (sess[i].ended /\ SessionStep(i)) =>
              UNCHANGED <<appState, pcCurrent, localStream, signalString>>]_vars

\* a timer that was pending before the step and is the same pending timer
\* after it
StillPending ==
    \/ \E i \in Sessions :
          \/ sess[i].timeoutId # "off" /\ sess'[i].timeoutId # "off"
          \/ sess[i].checkInterval # "off" /\ sess'[i].checkInterval # "off"
          \/ sess[i].trackTimer # "off" /\ sess'[i].trackTimer # "off"
    \/ fallbackTimer # "off" /\ fallbackTimer' # "off"
    \/ warningTimer # "off" /\ warningTimer' # "off" /\ warning' = warning

\* C5: every timer is cancelled on every path that leaves the phase that armed
\* it: no timer pending before a step that changes the phase is pending after.
C5_TimersCancelledOnLeaving ==
    [][appState' # appState => ~StillPending]_vars

\* the phase and the token the wait of session i ends in
TokenPhase(i) == IF sess[i].kind = "host" THEN SHOWING_OFFER ELSE SHOWING_ANSWER

\* C6: a session that waits for the gathering does not wait for ever: when the
\* gathering does not complete the timeout ends the wait, the controller is in
\* SHOWING_OFFER (host) or SHOWING_ANSWER (guest) with the token exposed, and
\* the warning is raised without an error.
C6_GatherTimeoutUnblocks ==
    /\ [][\A i \in Sessions :
            (GatherTimeout(i) /\ sess[i].pc = "gather") =>
                /\ appState' = TokenPhase(i)
                /\ signalString' = LocalToken[i][IF sess[i].kind = "host"
                                                 THEN <<"offer">> ELSE <<"answer">>]
                /\ signalString' # <<>>
                /\ warning' = "Network discovery is taking longer than expected..."
                /\ error' = error]_vars
    /\ \A i \in Sessions :
          (sess[i].pc = "gather") ~>
              (sess[i].pc = "done" /\ appState = TokenPhase(i) /\ signalString # <<>>)

\* the host shows its offer after the timeout, the gathering still going on
C6_Witness ==
    /\ appState = SHOWING_OFFER
    /\ warning = "Network discovery is taking longer than expected..."
    /\ error = NoError
    /\ pcCurrent # 0
    /\ sess[pcCurrent].gath = "gathering"
    /\ sess[pcCurrent].pc = "done"
    /\ signalString = LocalToken[pcCurrent][<<"offer">>]

\* C7: whenever initializePeerConnection creates an engine session, every
\* session created before is closed and its media stopped.
C7_OneLiveSession ==
    [][created' > created =>
          \A i \in 1..created :
              sess[i].peer # "open" /\ sess[i].media # "live"]_vars

\* the errors of a token that does not decode or is of the wrong kind
NonFatalErrors ==
    {"Invalid QR Code. Expected an Offer from the Caller.",
     "Invalid QR Code. Expected an Answer from the Caller.",
     "Incorrect code. Expected an OFFER (from Caller).",
     "Incorrect code. Expected an ANSWER (from Caller).",
     "Invalid code format. Please ensure you copied the entire string."}

\* C8: after a non-fatal error raised in SCANNING_OFFER or SCANNING_ANSWER the
\* user can supply another token in the same phase, without endCall.
C8_NonFatalErrorKeepsScanner ==
    (appState \in {SCANNING_OFFER, SCANNING_ANSWER} /\ error \in NonFatalErrors)
        => ScannerShown

\* the session whose two getUserMedia calls both failed
CaptureFailed(i) == sess[i].pc = "done" /\ sess[i].media = "none"

\* C22: when getUserMedia fails the session asks once more, for audio only,
\* with no error raised; when that call succeeds the session holds its stream
\* and goes on to createOffer (host) or setRemoteDescription (guest); when it
\* fails too the capture error is shown, the session makes no further call, and
\* it never gets a local or remote description, nor is a token set by the step.
C22_CaptureRetriedOnceThenFatal ==
    /\ [][\A i \in Sessions :
            /\ GumVideoFail(i) =>
                  /\ sess'[i].pc = "gumAudio"
                  /\ error' = error
                  /\ warning' = "Video device failed. Switching to Audio-only mode."
                  /\ UNCHANGED <<appState, signalString, qrJobs, pcCurrent, localStream>>
            /\ GumAudioOk(i) =>
                  /\ sess'[i].pc = (IF sess[i].kind = "host" THEN "createOffer"
                                    ELSE "setRemote")
                  /\ sess'[i].media = "live"
                  /\ localStream' = i
                  /\ pcCurrent' = i
                  /\ error' = error
            /\ GumAudioFail(i) =>
                  /\ error' = "Could not access microphone or camera. Please check permissions."
                  /\ CaptureFailed(i)'
                  /\ UNCHANGED <<appState, signalString, qrJobs, pcCurrent, localStream>>
            /\ sess[i].pc = "gumAudio" =>
                  sess'[i].pc \in {"gumAudio", "createOffer", "setRemote", "done"}
            /\ CaptureFailed(i) => CaptureFailed(i)']_vars
    /\ [](\A i \in Sessions :
            CaptureFailed(i) =>
                /\ sess[i].sig = "stable" /\ sess[i].gath = "new" /\ ~sess[i].remote
                /\ pcCurrent # i /\ localStream # i
                /\ sess[i].timeoutId = "off" /\ sess[i].checkInterval = "off")

\* the host asked for video and audio, then for audio only, and both failed
C22_Witness ==
    /\ appState = GENERATING_OFFER
    /\ role = "host"
    /\ created = 1
    /\ CaptureFailed(1)
    /\ error = "Could not access microphone or camera. Please check permissions."
    /\ warning = "Video device failed. Switching to Audio-only mode."
    /\ signalString = <<>>
    /\ qrJobs = <<>>
    /\ pcCurrent = 0

\* the guest's second getUserMedia succeeded and the offer is being applied
C22_RetrySucceeded ==
    /\ appState = GENERATING_ANSWER
    /\ created = 1
    /\ sess[1].pc = "setRemote"
    /\ sess[1].media = "live"
    /\ localStream = 1
    /\ warning = "Video device failed. Switching to Audio-only mode."
    /\ error = NoError

\* C23: on the guest CONNECTED is entered only from SHOWING_ANSWER, and only
\* by oniceconnectionstatechange, by the timer of ontrack or by the timer of
\* the SHOWING_ANSWER effect; never from SCANNING_OFFER or GENERATING_ANSWER.
C23_GuestConnectsOnlyFromAnswerReady ==
    [][(role = "peer" /\ appState # CONNECTED /\ appState' = CONNECTED) =>
          /\ appState = SHOWING_ANSWER
          /\ \/ FallbackFires
             \/ \E i \in Sessions : IceConnected(i) \/ TrackTimerFires(i)]_vars

\* the same for the timer of ontrack alone
C23_TrackTimerOnlyInAnswerReady ==
    [][\A i \in Sessions :
          (TrackTimerFires(i) /\ role = "peer" /\ ~sess[i].ended
              /\ appState # CONNECTED /\ appState' = CONNECTED) =>
                  appState = SHOWING_ANSWER]_vars

\* the signalingState the timer of the SHOWING_ANSWER effect reads
HeldSignalingState == IF pcCurrent = 0 THEN "none" ELSE sess[pcCurrent].sig

\* C24, arming: the timer of the SHOWING_ANSWER effect is armed by every step
\* that enters SHOWING_ANSWER.
C24_ArmedOnEntering ==
    [][(appState # SHOWING_ANSWER /\ appState' = SHOWING_ANSWER) =>
          fallbackTimer' = "armed"]_vars

\* C24, firing: the timer is pending in SHOWING_ANSWER only; when it fires
\* CONNECTED is entered if and only if the signalingState of the held
\* connection is stable, whether or not a remote stream has arrived.
C24_FiresOnlyInAnswerReady ==
    /\ [](fallbackTimer # "off" => appState = SHOWING_ANSWER)
    /\ [][FallbackFires =>
            /\ fallbackTimer' = "off"
            /\ IF HeldSignalingState = "stable"
               THEN appState' = CONNECTED
               ELSE appState' = appState
            /\ UNCHANGED <<remoteStream, error, sess, pcCurrent>>]_vars

\* C24: the timer of the SHOWING_ANSWER effect is armed on entering
\* SHOWING_ANSWER; when it fires it sets CONNECTED if and only if the phase is
\* still SHOWING_ANSWER and the signalingState is stable, with or without a
\* remote stream; it is not pending in any other phase.
C24_FallbackTimer == C24_ArmedOnEntering /\ C24_FiresOnlyInAnswerReady

\* the signalingState values that come before the answer exists: the offer is
\* applied (guest) or made (host) and the answer is not
PrecedesAnswer == {"have-remote-offer", "have-local-offer"}

\* C25: a track that arrives while the signalingState is one that comes before
\* the answer exists arms no timer, and no timer of ontrack sets CONNECTED for
\* a session whose signalingState is still such a state.
C25_TrackConnectsOnlyAfterAnswer ==
    [][\A i \in Sessions :
          /\ (TrackArrives(i) /\ sess[i].sig \in PrecedesAnswer) =>
                sess'[i].trackTimer = "off"
          /\ (TrackTimerFires(i) /\ sess[i].sig \in PrecedesAnswer) =>
                appState' # CONNECTED]_vars

\* the number of processAnswer calls that are in their wait
Waiting(calling) == Len(SelectSeq(calling, LAMBDA e : e.stage = "delay"))

\* a processAnswer call has started: its entry is the last of answers
AnswerStarted == Len(answers') = Len(answers) + 1

C26_Refused ==
    /\ appState = SCANNING_ANSWER
    /\ role = "host"
    /\ pcCurrent # 0
    /\ sess[pcCurrent].sig = "stable"
    /\ sess[pcCurrent].remote
    /\ answers = <<>>
    /\ error = "Handshake failed"

\* the messages of the two connection-state handlers (App.tsx 175, 206)
ConnectionErrors ==
    {"Connection lost. Peer disconnected.",
     "Connection Failed - Network instability detected."}

\* C27, entering: in every phase but HOME a failure reported by the engine
\* shows one of the connection errors.
C27_FailureIsShown ==
    [][\A i \in Sessions :
          ((IceFailed(i) \/ ConnectionLost(i)) /\ appState # HOME) =>
              /\ error' \in ConnectionErrors
              /\ ErrorModalShown']_vars

\* C27, leaving: while a connection error is shown the phase changes by
\* handleRetry only, which ends in HOME.
C27_FailedIsLeftByEndOnly ==
    [][(error \in ConnectionErrors /\ appState' # appState) =>
          (ClickRetry /\ appState' = HOME)]_vars

\* C27: a failure reported by the engine in a phase other than HOME shows the
\* connection error; from then on no step changes the phase but the one of
\* handleRetry, which returns to HOME.
C27_FailureIsTerminal == C27_FailureIsShown /\ C27_FailedIsLeftByEndOnly

\* the errors after which the call cannot go on: of the capture, of the
\* negotiation and of the connection
FatalErrors ==
    {"Could not access microphone or camera. Please check permissions.",
     "Failed to generate offer. Please retry.",
     "Connection failed during negotiation. Ensure both devices are on same WiFi.",
     "Connection not established. Start a call first.",
     "Handshake failed"} \cup ConnectionErrors

\* C28: a fatal error renders the error modal; its RETRY button leaves the
\* controller in HOME with no error and no warning, no RTCPeerConnection open
\* and no media stream live.
C28_RetryRestoresIdle ==
    /\ [](error \in FatalErrors => ErrorModalShown /\ ~SetupShown /\ ~VideoCallShown)
    /\ [][(ClickRetry /\ error \in FatalErrors) =>
            /\ appState' = HOME
            /\ error' = NoError
            /\ warning' = NoWarning
            /\ pcCurrent' = 0
            /\ localStream' = 0
            /\ \A i \in Sessions :
                  sess'[i].peer # "open" /\ sess'[i].media # "live"]_vars

\* the same without the sessions that are not held
C28_RetryClearsTheView ==
    [][(ClickRetry /\ error \in FatalErrors) =>
          /\ appState' = HOME /\ role' = "null"
          /\ error' = NoError /\ warning' = NoWarning
          /\ pcCurrent' = 0 /\ localStream' = 0 /\ remoteStream' = 0
          /\ signalString' = <<>>]_vars

\* what a handler has done to the phase, to the engine and to the error
Outcome(c) ==
    [appState |-> c.appState, created |-> c.created, sess |-> c.sess,
     pcCurrent |-> c.pcCurrent, answers |-> c.answers, failed |-> c.error # NoError]

\* the outcome of the scanner reading t, and of t given to handleManualInput
Scanned(t) ==
    Outcome(IF appState = SCANNING_OFFER THEN handleScanOffer(State, t)
            ELSE handleScanAnswer(State, t))
Pasted(t) == Outcome(handleManualInput(State, appState, t))

\* C29: in SCANNING_OFFER and in SCANNING_ANSWER every text longer than the
\* length below which handleManualInput keeps silent has the same outcome
\* (phase, sessions, calls of the engine, error or none) given to
\* handleManualInput as read by the scanner.
C29_ManualAsScanned ==
    ScannerShown =>
        \A t \in Supplied : Len(Trim(t)) > AutoSubmitLength => Pasted(t) = Scanned(t)

\* the same for the texts that do not decode or decode to a record with a text
C29_ManualAsScannedWithText ==
    ScannerShown =>
        \A t \in Supplied \ {OfferWithoutText} :
            Len(Trim(t)) > ManualErrorLength => Pasted(t) = Scanned(t)

\* the text t is given to the input of the scanner: typed, pasted, or read
\* from the clipboard
ManuallySupplied(t) ==
    \/ InputChange(t)
    \/ InputPaste(t)
    \/ \E k \in 1..MaxClipboard : ClipboardRead(k, t)

\* the step has raised no error and has left the phase and the sessions alone
Ignored == UNCHANGED <<appState, error, sess, created, pcCurrent, localStream, answers>>

\* C30: in SCANNING_OFFER and SCANNING_ANSWER a text of at most
\* ManualErrorLength characters given to the input raises no error, leaves the
\* phase as it is and neither creates nor changes a session.
C30_ShortInputIgnored ==
    [][\A t \in Supplied :
          (/\ appState \in {SCANNING_OFFER, SCANNING_ANSWER}
           /\ Len(Trim(t)) <= ManualErrorLength
           /\ ManuallySupplied(t)) => Ignored]_vars

\* the same for the short texts that do not decode, and for every text of at
\* most AutoSubmitLength characters that is typed
C30_ShortJunkIgnored ==
    [][\A t \in Supplied :
          (/\ appState \in {SCANNING_OFFER, SCANNING_ANSWER}
           /\ \/ Len(Trim(t)) <= ManualErrorLength /\ ~Truthy(ParsedSupplied[t])
                 /\ ManuallySupplied(t)
              \/ Len(t) <= AutoSubmitLength /\ InputChange(t)) => Ignored]_vars

\* the step enters SCANNING_ANSWER
EntersScanningAnswer == appState # SCANNING_ANSWER /\ appState' = SCANNING_ANSWER

\* C31, the way in: SCANNING_ANSWER is entered from SHOWING_OFFER only, by
\* the button "I Scanned Device B".
C31_EnteredByGuestScanned ==
    [][EntersScanningAnswer => (ClickScanned /\ appState = SHOWING_OFFER)]_vars

\* C31: SCANNING_ANSWER is entered from SHOWING_OFFER by the button only, in
\* the role of the host, with a connection held that is open, was made by
\* startCall and has its offer set.
C31_AwaitingAnswerOnlyOnHost ==
    [][EntersScanningAnswer =>
          /\ ClickScanned /\ appState = SHOWING_OFFER
          /\ role = "host"
          /\ pcCurrent # 0
          /\ sess[pcCurrent].kind = "host"
          /\ sess[pcCurrent].peer = "open"
          /\ sess[pcCurrent].sig = "have-local-offer"]_vars


\* the type of the description a session sets as its local description
LocalType(i) == IF sess[i].kind = "host" THEN <<"offer">> ELSE <<"answer">>

\* the step shows a token: SHOWING_OFFER or SHOWING_ANSWER is entered, or the
\* token held in it is replaced
ShowsToken ==
    /\ appState' \in {SHOWING_OFFER, SHOWING_ANSWER}
    /\ appState' # appState \/ signalString' # signalString

\* the continuation of session i shows its token in the step: its local
\* description is set, its gathering is complete or its timeout has just fired,
\* on the guest the offer was applied before, and the token is the encoding of
\* its local description
ShownBy(i) ==
    /\ sess[i].pc \in {"setLocal", "gather"} /\ sess'[i].pc = "done"
    /\ appState' = IF sess[i].kind = "host" THEN SHOWING_OFFER ELSE SHOWING_ANSWER
    /\ sess'[i].local = IF sess[i].kind = "host" THEN "offer" ELSE "answer"
    /\ \/ sess'[i].gath = "complete"
       \/ sess[i].timeoutId = "armed" /\ sess'[i].timeoutId = "off"
    /\ sess[i].kind = "guest" => sess[i].remote
    /\ signalString' = LocalToken[i][LocalType(i)]

\* the offer is applied before the answer is made, and the answer is made
\* before it is set
AnswerAfterOffer ==
    \A i \in Sessions :
        /\ sess[i].kind = "guest" /\ sess[i].pc \in {"createAnswer", "setLocal", "gather"}
              => sess[i].remote
        /\ sess[i].local = "answer" => sess[i].kind = "guest" /\ sess[i].remote
        /\ sess[i].local = "offer" => sess[i].kind = "host"

\* the token held in SHOWING_OFFER and in SHOWING_ANSWER is the encoding of the
\* local description of a session that has set it
TokenOfASession ==
    appState \in {SHOWING_OFFER, SHOWING_ANSWER} =>
        \E i \in Sessions :
            /\ sess[i].local = (IF appState = SHOWING_OFFER THEN "offer" ELSE "answer")
            /\ signalString = LocalToken[i][LocalType(i)]

\* C32: SHOWING_OFFER (SHOWING_ANSWER) is entered only by a session that has
\* set its offer (answer) as local description and whose gathering is complete
\* or timed out; the guest applies the offer before it makes the answer; the
\* token held in the phase is the encoding of that local description.
C32_TokenShownAfterLocalDescription ==
    /\ [](AnswerAfterOffer /\ TokenOfASession)
    /\ [][ShowsToken => \E i \in Sessions : ShownBy(i)]_vars

\* an answer is shown after the gathering timeout, the gathering still going on
C32_Witness ==
    /\ appState = SHOWING_ANSWER
    /\ \E i \in Sessions :
          /\ sess[i].kind = "guest" /\ sess[i].pc = "done"
          /\ sess[i].local = "answer" /\ sess[i].remote
          /\ sess[i].gath = "gathering"
          /\ signalString = LocalToken[i][<<"answer">>]

\* the step starts processOffer: a connection of the guest is made
StartsProcessOffer ==
    /\ created' = created + 1
    /\ created' \in Sessions
    /\ sess'[created'].kind = "guest"

\* a text reaches the device in the step, by the scanner or by the input
SuppliedInStep(t) ==
    \/ Scan(t)
    \/ InputChange(t)
    \/ InputPaste(t)
    \/ \E k \in 1..MaxClipboard : ClipboardRead(k, t)

\* C33, the first half: processOffer starts in SCANNING_OFFER only.
C33_ProcessOfferOnlyWhenScanningOffer ==
    [][StartsProcessOffer => appState = SCANNING_OFFER]_vars

\* C33: processOffer starts in SCANNING_OFFER only, and in every other phase a
\* text that reaches the device makes no connection and leaves the phase as it
\* is.
C33_TokenActsOnlyWhenAwaited ==
    [][/\ StartsProcessOffer => appState = SCANNING_OFFER
       /\ \A t \in Supplied :
             (appState # SCANNING_OFFER /\ SuppliedInStep(t)) =>
                 UNCHANGED <<appState, created>>]_vars

\* a host candidate with a private IPv4 address
IsPrivateHost(l) ==
    /\ IsCandidate(l)
    /\ LET f == Fields(l)
       IN  /\ Len(f) >= 8
           /\ f[7] = <<"typ">> /\ f[8] = <<"host">>
           /\ IsIPv4(Split(f[5], ".")) /\ InPrivateRange(Split(f[5], "."))

\* the first candidate line of its media section
FirstCandidateOfSection(in, i) ==
    /\ SectionOf(in, i) >= 1
    /\ \A j \in 1..(i - 1) :
          ~(IsCandidate(in[j]) /\ SectionOf(in, j) = SectionOf(in, i))

\* the line at i is among the kept lines
KeptAt(i) == \E k \in 1..Len(OutLines) : OutLines[k] = InLines[i]

\* C34: a host candidate with a private IPv4 address that is the first
\* candidate of its section is kept, its transport being written udp or UDP.
C34_TransportCaseIgnored ==
    Reduced =>
        \A i \in 1..Len(InLines) :
            (/\ IsPrivateHost(InLines[i])
             /\ Fields(InLines[i])[3] \in {<<"udp">>, <<"UDP">>}
             /\ FirstCandidateOfSection(InLines, i)) => KeptAt(i)

\* the same for the transport written udp
C34_LowerCaseKept ==
    Reduced =>
        \A i \in 1..Len(InLines) :
            (/\ IsPrivateHost(InLines[i])
             /\ Fields(InLines[i])[3] = <<"udp">>
             /\ FirstCandidateOfSection(InLines, i)) => KeptAt(i)

\* the step leaves CONNECTED
LeavesConnected == appState = CONNECTED /\ appState' # CONNECTED

\* C35: CONNECTED is left for HOME only, by endCall: no continuation of
\* startCall or processOffer, no end of gathering and no timer sets another
\* phase after CONNECTED.
C35_ConnectedLeftByEndOnly ==
    [][LeavesConnected =>
          /\ appState' = HOME
          /\ pcCurrent' = 0 /\ localStream' = 0 /\ role' = "null"]_vars

\* the same on a device on which endCall has never run
C35_ConnectedLeftByEndOnlyWithoutEnd ==
    [][(LeavesConnected /\ \A i \in Sessions : ~sess[i].ended) =>
          appState' = HOME]_vars

\* C36: a connection made before endCall ran is closed after it, the one whose
\* getUserMedia failed or is pending included, and its handlers are detached.
C36_EarlierSessionsClosed ==
    \A i \in Sessions :
        sess[i].ended => sess[i].peer = "closed" /\ ~sess[i].handlers

\* the same for the connections whose capture had failed when endCall ran
C36_FailedCaptureClosed ==
    [][(ClickEnd \/ ClickRetry) =>
          \A i \in Sessions : CaptureFailed(i) => sess'[i].peer = "closed"]_vars

\* C37: the code image displayed in SHOWING_OFFER and in SHOWING_ANSWER is the
\* image of the token held in signalString.
C37_ImageOfCurrentToken == TokenShown => qrCodeData = signalString

\* the same on a device that has shown one token only
C37_ImageOfFirstToken ==
    (TokenShown /\ created = 1 /\ ~sess[1].ended) => qrCodeData = signalString

\* C38: the lines formatSDPForQR keeps of a document are kept, all and
\* unchanged, when formatSDPForQR is given them as the document.
C38_ReducerIdempotent == Reduced => compressedSDP(reduced) = reduced

\* a document of which lines were dropped and a candidate and its end marker
\* were kept
C38_Witness ==
    /\ Reduced
    /\ Len(OutLines) < Len(InLines) - 1
    /\ \E k \in 1..Len(OutLines) : IsCandidate(OutLines[k])
    /\ \E k \in 1..Len(OutLines) : IsEndMarker(OutLines[k])
    /\ compressedSDP(reduced) = reduced

\* the cleanup of the effect runs in the step
CleanupRuns == Unmount \/ Restart

\* C39, the stream held: the stream streamRef holds when the cleanup runs is
\* stopped by it.
C39_HeldStreamStopped ==
    [][(CleanupRuns /\ scanner.streamRef # 0) =>
          scanner'.start[scanner.streamRef].stream = "stopped"]_vars

\* C39: after the cleanup of an effect no stream its startCamera acquired is
\* live, the one acquired after the cleanup included, its scan loop asks for no
\* frame, and no code is delivered to onScan by it.
C39_NothingOutlivesCleanup ==
    /\ \A k \in Starts :
          scanner.start[k].cleaned =>
              /\ scanner.start[k].stream # "live"
              /\ scanner.start[k].loop # "pending"
    /\ ~scanner.lateScan

\* the parts of C39 one by one
C39_NoStreamOutlivesCleanup ==
    \A k \in Starts : scanner.start[k].cleaned => scanner.start[k].stream # "live"

C39_NoLoopOutlivesCleanup ==
    \A k \in Starts : scanner.start[k].cleaned => scanner.start[k].loop # "pending"

C39_NoScanAfterCleanup == ~scanner.lateScan

\* the promise of getLocalIP is settled
Settled == probe.promise # <<>>

\* the address of the first of the events that has one other than 127.0.0.1
\* and 0.0.0.0, <<>> if none has
RECURSIVE FirstAddress(_, _)
FirstAddress(events, i) ==
    IF i > Len(events) THEN <<>>
    ELSE IF /\ events[i] # NullCandidate
            /\ ipMatch(events[i]) # <<>>
            /\ ipMatch(events[i]) # Addr_loopback
            /\ ipMatch(events[i]) # Addr_any
    THEN ipMatch(events[i])
    ELSE FirstAddress(events, i + 1)

\* while the promise is pending the timer is armed and no event had an address;
\* once it is settled the connection is closed, the timer is not armed, and
\* the value is the first address or, none having come, Unknown after the
\* timeout or the failure of the offer
ProbeSettlesRight ==
    /\ ~Settled =>
          /\ probe.timeout = "armed"
          /\ FirstAddress(probe.events, 1) = <<>>
    /\ Settled =>
          /\ probe.pc = "closed"
          /\ probe.timeout # "armed"
          /\ \/ /\ probe.promise = FirstAddress(probe.events, 1)
                /\ probe.ipFound
             \/ /\ probe.promise = Unknown
                /\ FirstAddress(probe.events, 1) = <<>>
                /\ probe.timeout = "fired" \/ probe.offer = "failed"

\* a settled promise keeps its value, and the timer does not fire after it
ProbeSettlesOnce ==
    Settled => /\ probe'.promise = probe.promise
               /\ ~(probe.timeout # "fired" /\ probe'.timeout = "fired")

\* C40: the promise of getLocalIP is settled in the end, once, with the first
\* address other than 127.0.0.1 and 0.0.0.0 or with Unknown after the timeout
\* or the failure of the offer; the connection is then closed and the timer
\* does not fire after it.
C40_ProbeResolvesOnce ==
    /\ []ProbeSettlesRight
    /\ [][ProbeSettlesOnce]_vars
    /\ <>Settled

\* the address of the third candidate is the value, the two before it having
\* had none that counts, and the offer fails afterwards
C40_Witness ==
    /\ Len(probe.events) = 3
    /\ ipMatch(probe.events[1]) = Addr_loopback
    /\ ipMatch(probe.events[2]) = <<>>
    /\ probe.promise = Addr_public
    /\ probe.resolveCalls = 2
    /\ probe.pc = "closed" /\ probe.timeout = "cleared"

\* Unknown after the timeout
C40_TimedOut ==
    /\ probe.promise = Unknown /\ probe.timeout = "fired"
    /\ Len(probe.events) = 3
====
